---- MODULE Spec2Model ----
(***************************************************************************)
(* A model of the event generation, bounded-history, caching and scoring   *)
(* core of the DDoS tracker (src/app.py).                                  *)
(*                                                                         *)
(* Every thread of the program is a model thread with a program counter    *)
(* pc[t] and locals loc[t]; every action is one atomic step of the code    *)
(* between two points at which the interpreter may switch threads or the   *)
(* thread blocks (a sleep, a network call, a database call).               *)
(***************************************************************************)
EXTENDS Integers, Sequences, FiniteSets, Bags, TLC

\* ------------------------------------------------------------------------
\* Program constants (src/app.py, configuration section)
\* ------------------------------------------------------------------------
MAX_ATTACKS == 100
MAX_THREAT_HISTORY == 60
ANALYSIS_WINDOW_SECONDS == 300
CACHE_DURATION == 90
THREAT_LEVEL_CRITICAL == 80
THREAT_LEVEL_HIGH == 60
THREAT_LEVEL_MEDIUM == 35
ESCALATION_THRESHOLD == 10
DE_ESCALATION_THRESHOLD == 10

\* ------------------------------------------------------------------------
\* Bounds of the model
\* ------------------------------------------------------------------------
\* wall-clock second at which the model starts
StartTime == 1000
\* records created in one run of the ring-buffer specification
RingRun == 5
\* records created in the specifications that do not fill the buffer
MaxCreated == 3
\* seconds the clock may advance in the specifications with a clock
MaxElapsed == 180
\* seconds the clock advances in one step
TickStep == 45
\* refreshes of the threat-intel pool started in SpecPool
MaxRefreshes == 2
\* score computations started by a thread
MaxScores == 2
\* the longest buffer that SpecCalc starts from
MaxAnalysed == 21
\* attacks the generation loop appends in SpecCalc
CalcRun == 1
\* the longest score history that SpecTrend starts from
MaxHistory == 6
\* the longest buffer that SpecFactors starts from
MaxListed == 12

\* ------------------------------------------------------------------------
\* The world outside the program
\* ------------------------------------------------------------------------
\* optional values: None is the empty sequence, Some(x) a one-element one
None == << >>
Some(x) == << x >>
IsNone(o) == Len(o) = 0
Val(o) == o[1]

IPs == {"1.1.0.1", "1.1.0.2", "2.2.0.1", "3.3.0.1"}

\* what the remote geolocation provider answers for an IP when it answers
GeoDB ==
    [ip \in IPs |->
        CASE ip = "1.1.0.1" -> [name |-> "Berlin",  country |-> "Germany"]
          [] ip = "1.1.0.2" -> [name |-> "Munich",  country |-> "Germany"]
          [] ip = "2.2.0.1" -> [name |-> "Lyon",    country |-> "France"]
          [] OTHER          -> [name |-> "Unknown", country |-> "Brazil"]]

\* the list sources of fetch_real_threat_data, in the order of the code
sources ==
    << "SSH", "Apache", "Mail", "FTP", "Brute Force", "Strong IPs", "IRC Bot", "Bots" >>

CommentLine == "# comment"
BlankLine == ""

\* the text a source serves when it answers 200, split at newlines
Body(name) ==
    CASE name = "SSH"         -> << CommentLine, "1.1.0.1", "1.1.0.2" >>
      [] name = "Apache"      -> << "1.1.0.2", BlankLine, "2.2.0.1" >>
      [] name = "Mail"        -> << "1.1.0.1" >>
      [] name = "FTP"         -> << BlankLine >>
      [] name = "Brute Force" -> << "2.2.0.1", "2.2.0.1" >>
      [] name = "Strong IPs"  -> << "3.3.0.1", BlankLine >>
      [] name = "IRC Bot"     -> << CommentLine >>
      [] OTHER                -> << "1.1.0.1", "3.3.0.1" >>

\* outcomes of one HTTP GET of a list source
HttpResults == {"ok", "non200", "exception"}
\* outcomes of one remote geolocation lookup
GeoResults == {"success", "fail_status", "non200", "exception"}
\* outcomes of a database save and of a socket emit
SinkResults == {"ok", "exception"}

\* a small gazetteer standing for US_CITIES
US_CITIES == {"New York", "Chicago"}
\* lines 582-587 (and 653-658): the lists the creators draw from
attack_types ==
    << "SSH Brute Force", "HTTP Flood", "Port Scan", "DDoS Attack",
       "Network Intrusion", "Apache Attack", "Mail Server Attack",
       "FTP Brute Force", "SQL Injection Attempt" >>
severity_levels == << "Low", "Medium", "High", "Critical" >>

\* ------------------------------------------------------------------------
\* Threads
\* ------------------------------------------------------------------------
GenThread == "gen"
RouteThread == "req"
ScoreLoopThread == "scorer"
ScoreReqThread == "sreq"
PoolThread == "pool"
\* a caller of ThreatScoringService.calculate_score
ServiceThread == "svc"
\* a request to /api/threat/countries
CountryReqThread == "creq"
Threads ==
    {GenThread, RouteThread, ScoreLoopThread, ScoreReqThread, PoolThread,
     ServiceThread, CountryReqThread}

VARIABLES
    recent_attacks,        \* the deque of recent attacks, oldest first
    deque_state,           \* the deque's mutation counter (checked by its iterators)
    recent_attacks_lock,   \* None, or Some(thread holding the lock)
    ip_cache,              \* function: cached IP -> location
    threat_ips_cache,      \* the pool (a list without duplicates, order irrelevant)
    last_fetch_time,
    threat_score_history,  \* the deque of score records, oldest first
    now,                   \* the wall clock, seconds
    db,                    \* the rows the storage sink holds (a bag of attacks)
    emitted,               \* what has been broadcast to subscribers (a bag)
    pc,                    \* per thread: the point of the code it is at
    loc,                   \* per thread: its local variables
    uid_next,              \* history: identity of the next object created
    created,               \* history: the ids of all attacks created, in creation order
    appended,              \* history: all records appended to the deque, in order
    obs,                   \* history: what has been observed of the run so far
    files,                 \* the file system: path -> content of the file
    environ,               \* os.environ: name -> value, for the names that are set
    _config,               \* utils/config.py: the global instance, None or Some(id)
    configs,               \* the Config objects constructed so far; an id is an index
    ret,                   \* what the last call into utils/config.py returned
    sched                  \* generate_attacks_background: its locals attack_intensity,
                           \* intensity_trend and sleep_time, in hundredths

shared == << recent_attacks, deque_state, recent_attacks_lock >>
caches == << ip_cache, threat_ips_cache, last_fetch_time >>
sinks == << db, emitted >>
hist == << uid_next, created, appended, obs >>
conf == << files, environ, _config, configs, ret >>
vars == << recent_attacks, deque_state, recent_attacks_lock,
           ip_cache, threat_ips_cache, last_fetch_time, threat_score_history,
           now, db, emitted, pc, loc, uid_next, created, appended, obs,
           files, environ, _config, configs, ret, sched >>

\* ------------------------------------------------------------------------
\* Data
\* ------------------------------------------------------------------------
ZeroFactors == [frequency |-> 0, severity |-> 0, diversity |-> 0, concentration |-> 0]

\* the record returned at lines 251-262, 273-284 and 340-351 of src/app.py;
\* factors are kept in tenths (one decimal place)
ZeroScore(t) ==
    [score |-> 0, level |-> "Low", trend |-> "stable", factors |-> ZeroFactors,
     timestamp |-> t]

NoLocals ==
    [caller |-> "", attack |-> None, burst_left |-> 0,
     burst_count |-> 0, burst_made |-> 0, burst_slept |-> 0,
     threat_ips |-> {}, source_ip |-> "", destination_ip |-> "",
     origin |-> None, destination |-> None, which |-> "",
     current_time |-> 0, all_ips |-> << >>, idx |-> 0, fetched |-> 0, ok_sources |-> {},
     pool_before |-> {}, last_before |-> 0,
     geo_calls |-> 0, it_state |-> 0, recent_attack_list |-> << >>,
     result |-> None, raised |-> FALSE, hist_before |-> << >>, buf_at_call |-> << >>,
     prev_list |-> << >>, prev_result |-> None, prev_raised |-> FALSE,
     save_result |-> "", emit_result |-> "", country_scores |-> << >>,
     status |-> ""]

\* a deque that grows without bound
DequeAppend_Unbounded(d, maxlen, x) == Append(d, x)

\* a deque that makes room by dropping its newest element
DequeAppend_DropNewest(d, maxlen, x) ==
    IF Len(d) >= maxlen THEN Append(SubSeq(d, 1, Len(d) - 1), x) ELSE Append(d, x)

\* deque.append on a deque with a maxlen: the oldest element goes when full
DequeAppend(d, maxlen, x) ==
    IF Len(d) >= maxlen THEN Append(Tail(d), x) ELSE Append(d, x)

\* dict.get(key, default)
Get(a, key, default) == IF key \in DOMAIN a THEN a[key] ELSE default

\* set(list): the elements of a list, duplicates gone
ToSet(s) == { s[i] : i \in 1..Len(s) }

\* ------------------------------------------------------------------------
\* Steps shared by the operations
\* ------------------------------------------------------------------------
Goto(t, l) == pc' = [pc EXCEPT ![t] = l]
SetLoc(t, r) == loc' = [loc EXCEPT ![t] = r]
Count(kind) == obs' = [obs EXCEPT ![kind] = @ + 1]

\* the wall clock advances by `step` seconds, at most `limit` seconds in all
Tick(step, limit) ==
    /\ now + step <= StartTime + limit
    /\ now' = now + step
    /\ UNCHANGED << shared, caches, threat_score_history, sinks, pc, loc, hist, conf, sched >>

\* ------------------------------------------------------------------------
\* fetch_real_threat_data (src/app.py 528-560)
\* ------------------------------------------------------------------------
\* line 553: the lines of a response that are neither blank nor comments
ParseLines(lines) == SelectSeq(lines, LAMBDA l : l # BlankLine /\ l # CommentLine)

\* where fetch_real_threat_data returns to
AfterFetch(t) ==
    CASE loc[t].caller = "prefetch" -> "loop"
      [] loc[t].caller = "refresh"  -> "pool_idle"
      [] OTHER                      -> "real_pick"

\* a gate that ignores the age of the pool
FetchGateOpen_NoTimeGate(pool, current_time, last) == TRUE

\* a gate that looks at the time only
FetchGateOpen_TimeOnly(pool, current_time, last) ==
    (current_time - last) >= CACHE_DURATION

\* lines 532-536: the time gate
FetchGateOpen(pool, current_time, last) ==
    ~ (pool # {} /\ (current_time - last) < CACHE_DURATION)

FetchCheck(t) ==
    /\ pc[t] = "fetch_check"
    /\ IF FetchGateOpen(threat_ips_cache, now, last_fetch_time)
       THEN /\ SetLoc(t, [loc[t] EXCEPT !.current_time = now, !.all_ips = << >>,
                                         !.idx = 1, !.fetched = 0, !.ok_sources = {},
                                         !.pool_before = threat_ips_cache,
                                         !.last_before = last_fetch_time,
                                         !.status = "stale"])
            /\ Goto(t, "fetch_src")
       ELSE /\ SetLoc(t, [loc[t] EXCEPT !.current_time = now, !.all_ips = << >>,
                                         !.idx = 0, !.fetched = 0, !.ok_sources = {},
                                         !.pool_before = threat_ips_cache,
                                         !.last_before = last_fetch_time,
                                         !.threat_ips = threat_ips_cache,
                                         !.status = "fresh"])
            /\ Goto(t, AfterFetch(t))
    /\ UNCHANGED << shared, caches, threat_score_history, now, conf, sched, sinks, hist >>

\* lines 549-556: one trip of the loop over the sources
SourceLines(name, r) == IF r = "ok" THEN ParseLines(Body(name)) ELSE << >>

\* a loop whose try block encloses the loop: the first failure ends it
FetchSource_AbortOnFailure(t, results) ==
    /\ pc[t] = "fetch_src"
    /\ \E r \in results :
         /\ SetLoc(t, [loc[t] EXCEPT
                  !.all_ips = @ \o SourceLines(sources[loc[t].idx], r),
                  !.ok_sources = IF r = "ok" THEN @ \cup {loc[t].idx} ELSE @,
                  !.fetched = @ + 1,
                  !.idx = @ + 1])
         /\ Goto(t, IF loc[t].idx = Len(sources) \/ r # "ok"
                    THEN "fetch_commit" ELSE "fetch_src")
    /\ UNCHANGED << shared, caches, threat_score_history, now, conf, sched, sinks, hist >>

FetchSource(t, results) ==
    /\ pc[t] = "fetch_src"
    /\ \E r \in results :
         /\ SetLoc(t, [loc[t] EXCEPT
                  !.all_ips = @ \o SourceLines(sources[loc[t].idx], r),
                  !.ok_sources = IF r = "ok" THEN @ \cup {loc[t].idx} ELSE @,
                  !.fetched = @ + 1,
                  !.idx = @ + 1])
         /\ Goto(t, IF loc[t].idx = Len(sources) THEN "fetch_commit" ELSE "fetch_src")
    /\ UNCHANGED << shared, caches, threat_score_history, now, conf, sched, sinks, hist >>

\* line 558: the pool a finished refresh commits
PoolToCommit(all_ips) == ToSet(all_ips)

\* lines 558-560
FetchCommit(t) ==
    /\ pc[t] = "fetch_commit"
    /\ threat_ips_cache' = PoolToCommit(loc[t].all_ips)
    /\ last_fetch_time' = loc[t].current_time
    /\ SetLoc(t, [loc[t] EXCEPT !.threat_ips = threat_ips_cache', !.status = "committed"])
    /\ obs' = [obs EXCEPT !.last_good =
                   IF ToSet(loc[t].all_ips) # {}
                   THEN Some([time |-> loc[t].current_time, pool |-> ToSet(loc[t].all_ips)])
                   ELSE None]
    /\ Goto(t, AfterFetch(t))
    /\ UNCHANGED << shared, ip_cache, threat_score_history, now, conf, sched, sinks,
                    uid_next, created, appended >>

\* a caller of fetch_real_threat_data on its own (prefetch_and_start, line 1223)
RefreshCall(t) ==
    /\ pc[t] = "pool_idle"
    /\ obs["refresh"] < MaxRefreshes
    /\ Count("refresh")
    /\ SetLoc(t, [NoLocals EXCEPT !.caller = "refresh"])
    /\ Goto(t, "fetch_check")
    /\ UNCHANGED << shared, caches, threat_score_history, now, conf, sched, sinks,
                    uid_next, created, appended >>

\* ------------------------------------------------------------------------
\* get_ip_location (src/app.py 502-526), called twice by create_real_attack
\* ------------------------------------------------------------------------
LookupIp(t) == IF loc[t].which = "src" THEN loc[t].source_ip ELSE loc[t].destination_ip

\* a lookup that never finds its answer in the cache
CacheHit_Never(cache, ip) == FALSE

\* lines 504-505: is the answer in the cache
CacheHit(cache, ip) == ip \in DOMAIN cache

\* line 521
CachePut(cache, ip, location) ==
    [x \in DOMAIN cache \cup {ip} |-> IF x = ip THEN location ELSE cache[x]]

\* the caller's assignment of what get_ip_location returned (lines 647-648)
GeoReturn(t, l, location, calls) ==
    IF l.which = "src"
    THEN /\ SetLoc(t, [l EXCEPT !.origin = location, !.which = "dst", !.geo_calls = calls])
         /\ Goto(t, "geo_check")
    ELSE /\ SetLoc(t, [l EXCEPT !.destination = location, !.which = "done",
                                !.geo_calls = calls])
         /\ Goto(t, "real_make")

GeoCheck(t) ==
    /\ pc[t] = "geo_check"
    /\ IF CacheHit(ip_cache, LookupIp(t))
       THEN GeoReturn(t, loc[t], Some(ip_cache[LookupIp(t)]), 0)
       ELSE /\ Goto(t, "geo_remote")
            /\ SetLoc(t, [loc[t] EXCEPT !.geo_calls = 0])
    /\ UNCHANGED << shared, caches, threat_score_history, now, conf, sched, sinks, hist >>

\* a cache that also keeps an answer for a lookup that failed
CacheAfterLookup_CachesFailure(cache, ip, r) == CachePut(cache, ip, GeoDB[ip])

\* lines 510-522: what a response makes of the cache
CacheAfterLookup(cache, ip, r) ==
    IF r = "success" THEN CachePut(cache, ip, GeoDB[ip]) ELSE cache

\* lines 507-526: the delay, the remote call and what follows it
GeoRemote(t, results) ==
    /\ pc[t] = "geo_remote"
    /\ \E r \in results :
         /\ ip_cache' = CacheAfterLookup(ip_cache, LookupIp(t), r)
         /\ obs' = [obs EXCEPT
                        !.geo_ok = IF r = "success" THEN @ \cup {LookupIp(t)} ELSE @,
                        !.geo_failed = IF r = "success" THEN @ ELSE @ \cup {LookupIp(t)}]
         /\ GeoReturn(t, loc[t],
                      IF r = "success" THEN Some(GeoDB[LookupIp(t)]) ELSE None, 1)
    /\ UNCHANGED << shared, threat_ips_cache, last_fetch_time, threat_score_history,
                    now, conf, sched, sinks, uid_next, created, appended >>

\* ------------------------------------------------------------------------
\* create_us_attack (562-618) and create_real_attack (620-677)
\* ------------------------------------------------------------------------
\* lines 603 and 662: the id given to a new attack
NextId(buffer) == Len(buffer) + 1

Attack(uid, id, ts, origin, destination, type, sev, sip, dip, ipv, real) ==
    [uid |-> uid, id |-> id, timestamp |-> ts, origin |-> origin,
     destination |-> destination, attack_type |-> type, severity |-> sev,
     source_ip |-> sip, destination_ip |-> dip, ip_version |-> ipv, real_data |-> real]

UsLocation(city) == [name |-> city, country |-> "United States"]

\* where create_real_attack returns to: its three callers
AfterReal(t, made) ==
    CASE loc[t].caller = "single" -> IF made THEN "bc_lock" ELSE "loop"
      [] loc[t].caller = "burst"  -> IF made THEN "bc_lock" ELSE "burst_sleep"
      [] OTHER                    -> IF made THEN "route_append" ELSE "route_error"

\* lines 624-645: too small a pool yields nothing; otherwise two distinct IPs of it
\* (either branch of the diversity heuristic can end with any pair of distinct IPs)
RealPick(t) ==
    /\ pc[t] = "real_pick"
    /\ IF Cardinality(loc[t].threat_ips) < 2
       THEN /\ SetLoc(t, [loc[t] EXCEPT !.attack = None, !.status = "small_pool"])
            /\ Goto(t, AfterReal(t, FALSE))
       ELSE \E s \in loc[t].threat_ips : \E d \in loc[t].threat_ips \ {s} :
              /\ SetLoc(t, [loc[t] EXCEPT !.source_ip = s, !.destination_ip = d,
                                            !.which = "src", !.status = "picked"])
              /\ Goto(t, "geo_check")
    /\ UNCHANGED << shared, caches, threat_score_history, now, conf, sched, sinks, hist >>

\* lines 650-677
\* a creation that goes on when only the origin was resolved
RealMake_OriginOnly(t, types, sevs) ==
    /\ pc[t] = "real_make"
    /\ IF IsNone(loc[t].origin)
       THEN /\ SetLoc(t, [loc[t] EXCEPT !.attack = None, !.status = "no_location"])
            /\ Goto(t, AfterReal(t, FALSE))
            /\ UNCHANGED << uid_next, created, obs >>
       ELSE \E ty \in types : \E sv \in sevs :
              /\ SetLoc(t, [loc[t] EXCEPT
                      !.attack = Some(Attack(uid_next, NextId(recent_attacks), now,
                                             Val(loc[t].origin),
                                             IF IsNone(loc[t].destination)
                                             THEN Val(loc[t].origin)
                                             ELSE Val(loc[t].destination),
                                             ty, sv, loc[t].source_ip,
                                             loc[t].destination_ip, "IPv4", TRUE)),
                      !.status = "made"])
              /\ Goto(t, AfterReal(t, TRUE))
              /\ uid_next' = uid_next + 1
              /\ created' = Append(created, NextId(recent_attacks))
              /\ Count("created")
    /\ UNCHANGED << shared, caches, threat_score_history, now, conf, sched, sinks,
                    appended >>

RealMake(t, types, sevs) ==
    /\ pc[t] = "real_make"
    /\ IF IsNone(loc[t].origin) \/ IsNone(loc[t].destination)
       THEN /\ SetLoc(t, [loc[t] EXCEPT !.attack = None, !.status = "no_location"])
            /\ Goto(t, AfterReal(t, FALSE))
            /\ UNCHANGED << uid_next, created, obs >>
       ELSE \E ty \in types : \E sv \in sevs :
              /\ SetLoc(t, [loc[t] EXCEPT
                      !.attack = Some(Attack(uid_next, NextId(recent_attacks), now,
                                             Val(loc[t].origin), Val(loc[t].destination),
                                             ty, sv, loc[t].source_ip,
                                             loc[t].destination_ip, "IPv4", TRUE)),
                      !.status = "made"])
              /\ Goto(t, AfterReal(t, TRUE))
              /\ uid_next' = uid_next + 1
              /\ created' = Append(created, NextId(recent_attacks))
              /\ Count("created")
    /\ UNCHANGED << shared, caches, threat_score_history, now, conf, sched, sinks,
                    appended >>

\* ------------------------------------------------------------------------
\* _broadcast_attack (1102-1138)
\* ------------------------------------------------------------------------
AfterBroadcast(t) == IF loc[t].caller = "burst" THEN "burst_sleep" ELSE "loop"

\* line 1120: with recent_attacks_lock
BcLock(t) ==
    /\ pc[t] = "bc_lock"
    /\ IsNone(recent_attacks_lock)
    /\ recent_attacks_lock' = Some(t)
    /\ Goto(t, "bc_append")
    /\ UNCHANGED << recent_attacks, deque_state, caches, threat_score_history, now, conf, sched,
                    sinks, loc, hist >>

\* an append whose lock is not released before the save and the broadcast
BcAppend_KeepsLock(t) ==
    /\ pc[t] = "bc_append"
    /\ recent_attacks' = DequeAppend(recent_attacks, MAX_ATTACKS, Val(loc[t].attack))
    /\ deque_state' = deque_state + 1
    /\ appended' = Append(appended, Val(loc[t].attack))
    /\ Goto(t, "bc_save")
    /\ UNCHANGED << recent_attacks_lock, caches, threat_score_history, now, conf, sched, sinks, loc,
                    uid_next, created, obs >>

\* line 1121, and the lock's release
BcAppend(t) ==
    /\ pc[t] = "bc_append"
    /\ recent_attacks' = DequeAppend(recent_attacks, MAX_ATTACKS, Val(loc[t].attack))
    /\ deque_state' = deque_state + 1
    /\ appended' = Append(appended, Val(loc[t].attack))
    /\ recent_attacks_lock' = None
    /\ Goto(t, "bc_save")
    /\ UNCHANGED << caches, threat_score_history, now, conf, sched, sinks, loc,
                    uid_next, created, obs >>

\* what a save makes of the storage sink
Saved(rows, attack, r) == IF r = "ok" THEN rows (+) SetToBag({attack}) ELSE rows

\* a failed save that ends the fan-out: the handler of lines 1137-1138 alone
BcSave_AbortsOnFailure(t, results) ==
    /\ pc[t] = "bc_save"
    /\ \E r \in results :
         /\ db' = Saved(db, Val(loc[t].attack), r)
         /\ IF r = "ok"
            THEN /\ SetLoc(t, [loc[t] EXCEPT !.save_result = r])
                 /\ Goto(t, "bc_emit")
            ELSE /\ SetLoc(t, [loc[t] EXCEPT !.save_result = r,
                                             !.status = "fanned_out"])
                 /\ Goto(t, AfterBroadcast(t))
    /\ UNCHANGED << shared, caches, threat_score_history, now, conf, sched, emitted, hist >>

\* lines 1126-1129
BcSave(t, results) ==
    /\ pc[t] = "bc_save"
    /\ \E r \in results :
         /\ db' = Saved(db, Val(loc[t].attack), r)
         /\ SetLoc(t, [loc[t] EXCEPT !.save_result = r])
    /\ Goto(t, "bc_emit")
    /\ UNCHANGED << shared, caches, threat_score_history, now, conf, sched, emitted, hist >>

\* a broadcast whose exception leaves _broadcast_attack and, with no handler in
\* generate_attacks_background, ends the thread
BcEmit_Propagates(t, results) ==
    /\ pc[t] = "bc_emit"
    /\ \E r \in results :
         /\ emitted' = Saved(emitted, Val(loc[t].attack), r)
         /\ SetLoc(t, [loc[t] EXCEPT !.emit_result = r, !.status = "fanned_out"])
         /\ Goto(t, IF r = "ok" THEN AfterBroadcast(t) ELSE "terminated")
    /\ UNCHANGED << shared, caches, threat_score_history, now, conf, sched, db, hist >>

\* lines 1132-1135
BcEmit(t, results) ==
    /\ pc[t] = "bc_emit"
    /\ \E r \in results :
         /\ emitted' = Saved(emitted, Val(loc[t].attack), r)
         /\ SetLoc(t, [loc[t] EXCEPT !.emit_result = r, !.status = "fanned_out"])
    /\ Goto(t, AfterBroadcast(t))
    /\ UNCHANGED << shared, caches, threat_score_history, now, conf, sched, db, hist >>

\* ------------------------------------------------------------------------
\* generate_attacks_background (1175-1199) and _generate_burst_attacks (1140-1146)
\* ------------------------------------------------------------------------
\* line 1188: a burst of k attacks
GenBurst(t, counts, max_created) ==
    /\ pc[t] = "loop"
    /\ \E k \in counts :
         /\ obs["created"] + k <= max_created
         /\ SetLoc(t, [NoLocals EXCEPT !.caller = "burst", !.burst_left = k,
                                        !.burst_count = k])
    /\ Goto(t, "fetch_check")
    /\ UNCHANGED << shared, caches, threat_score_history, now, conf, sched, sinks, hist >>

\* lines 1191-1192: a US attack is created, then handed to _broadcast_attack
GenUs(t, cities, types, sevs, versions, max_created) ==
    /\ pc[t] = "loop"
    /\ obs["created"] < max_created
    /\ \E o \in cities : \E d \in US_CITIES \ {o} :
       \E ty \in types : \E sv \in sevs : \E v \in versions :
         SetLoc(t, [NoLocals EXCEPT
             !.caller = "single",
             !.attack = Some(Attack(uid_next, NextId(recent_attacks), now,
                                    UsLocation(o), UsLocation(d), ty, sv,
                                    "192.168.1.1", "10.1.1.1", v, FALSE)),
             !.status = "made"])
    /\ uid_next' = uid_next + 1
    /\ created' = Append(created, NextId(recent_attacks))
    /\ Count("created")
    /\ Goto(t, "bc_lock")
    /\ UNCHANGED << shared, caches, threat_score_history, now, conf, sched, sinks,
                    appended >>

\* lines 1195-1197
GenReal(t, max_created) ==
    /\ pc[t] = "loop"
    /\ obs["created"] < max_created
    /\ SetLoc(t, [NoLocals EXCEPT !.caller = "single"])
    /\ Goto(t, "fetch_check")
    /\ UNCHANGED << shared, caches, threat_score_history, now, conf, sched, sinks, hist >>

\* time.sleep(0.3) of line 1146, in tenths of a second
BURST_PAUSE == 3

\* a burst that pauses only after an attempt that made an attack
BurstSleep_PauseIfMade(t) ==
    /\ pc[t] = "burst_sleep"
    /\ LET made == loc[t].burst_made + (IF IsNone(loc[t].attack) THEN 0 ELSE 1)
           slept == loc[t].burst_slept + (IF IsNone(loc[t].attack) THEN 0 ELSE BURST_PAUSE)
       IN  IF loc[t].burst_left > 1
           THEN /\ SetLoc(t, [NoLocals EXCEPT !.caller = "burst",
                                              !.burst_left = loc[t].burst_left - 1,
                                              !.burst_count = loc[t].burst_count,
                                              !.burst_made = made,
                                              !.burst_slept = slept])
                /\ Goto(t, "fetch_check")
           ELSE /\ SetLoc(t, [loc[t] EXCEPT !.burst_left = 0, !.burst_made = made,
                                            !.burst_slept = slept])
                /\ Goto(t, "loop")
    /\ UNCHANGED << shared, caches, threat_score_history, now, conf, sched, sinks, hist >>

\* line 1146, and the loop of line 1142: the pause that ends an attempt, whether
\* or not the attempt made an attack; burst_made counts the attempts of this
\* burst that made one and handed it to _broadcast_attack, burst_slept the pauses
BurstSleep(t) ==
    /\ pc[t] = "burst_sleep"
    /\ LET made == loc[t].burst_made + (IF IsNone(loc[t].attack) THEN 0 ELSE 1)
           slept == loc[t].burst_slept + BURST_PAUSE
       IN  IF loc[t].burst_left > 1
           THEN /\ SetLoc(t, [NoLocals EXCEPT !.caller = "burst",
                                              !.burst_left = loc[t].burst_left - 1,
                                              !.burst_count = loc[t].burst_count,
                                              !.burst_made = made,
                                              !.burst_slept = slept])
                /\ Goto(t, "fetch_check")
           ELSE /\ SetLoc(t, [loc[t] EXCEPT !.burst_left = 0, !.burst_made = made,
                                            !.burst_slept = slept])
                /\ Goto(t, "loop")
    /\ UNCHANGED << shared, caches, threat_score_history, now, conf, sched, sinks, hist >>

\* prefetch_and_start (1221-1224)
Prefetch(t) ==
    /\ pc[t] = "prefetch"
    /\ SetLoc(t, [NoLocals EXCEPT !.caller = "prefetch"])
    /\ Goto(t, "fetch_check")
    /\ UNCHANGED << shared, caches, threat_score_history, now, conf, sched, sinks, hist >>

\* ------------------------------------------------------------------------
\* the pace of generate_attacks_background (src/app.py 1148-1160, 1177-1183);
\* intensities, trends and seconds are in hundredths
\* ------------------------------------------------------------------------
Clamp(lo, x, hi) ==
    LET capped == IF x < hi THEN x ELSE hi
    IN  IF capped > lo THEN capped ELSE lo

\* lines 1148-1154 without the clamps of lines 1151 and 1153
update_intensity_Unclamped(intensity, trend, step) ==
    [attack_intensity |-> intensity + trend + step, intensity_trend |-> trend + step]

\* lines 1148-1154, `step` being the draw of random.uniform(-0.15, 0.15)
update_intensity(intensity, trend, step) ==
    LET moved == Clamp(-50, trend + step, 50)
    IN  [attack_intensity |-> Clamp(30, intensity + moved, 200),
         intensity_trend |-> moved]

\* lines 1156-1160, `variation` being the draw of random.uniform(-0.8, 0.8);
\* 3.0 / intensity is taken to the hundredth of a second below
calculate_sleep_time(intensity, variation) ==
    Clamp(100, (30000 \div intensity) + variation, 500)

\* lines 1177-1178: the locals before the first iteration; no sleep_time yet
LoopLocals == [attack_intensity |-> 100, intensity_trend |-> 0, sleep_time |-> None]

\* lines 1182-1183: the head of an iteration
SchedIterate(t, steps, variations) ==
    /\ pc[t] = "loop"
    /\ \E step \in steps : \E variation \in variations :
         LET u == update_intensity(sched.attack_intensity, sched.intensity_trend, step)
         IN  sched' = [attack_intensity |-> u.attack_intensity,
                       intensity_trend |-> u.intensity_trend,
                       sleep_time |-> Some(calculate_sleep_time(u.attack_intensity,
                                                                variation))]
    /\ UNCHANGED << shared, caches, threat_score_history, now, conf, sinks, pc, loc, hist >>

\* ------------------------------------------------------------------------
\* the locks of lines 140, 143 and 148: each is created at load and acquired
\* nowhere in app.py, so no thread ever holds one
\* ------------------------------------------------------------------------
threat_history_lock == None
ip_cache_lock == None
threat_cache_lock == None

\* ------------------------------------------------------------------------
\* the route /api/generate_attack: generate_new_attack (688-704)
\* ------------------------------------------------------------------------
RouteStart(t, max_created) ==
    /\ pc[t] = "route_idle"
    /\ obs["created"] < max_created
    /\ Count("route")
    /\ SetLoc(t, [NoLocals EXCEPT !.caller = "route"])
    /\ Goto(t, "fetch_check")
    /\ UNCHANGED << shared, caches, threat_score_history, now, conf, sched, sinks,
                    uid_next, created, appended >>

\* a route that appends the attack it made twice
RouteAppend_Twice(t) ==
    /\ pc[t] = "route_append"
    /\ recent_attacks' = DequeAppend(DequeAppend(recent_attacks, MAX_ATTACKS,
                                                 Val(loc[t].attack)),
                                     MAX_ATTACKS, Val(loc[t].attack))
    /\ deque_state' = deque_state + 2
    /\ appended' = Append(Append(appended, Val(loc[t].attack)), Val(loc[t].attack))
    /\ Goto(t, "route_save")
    /\ UNCHANGED << recent_attacks_lock, caches, threat_score_history, now, conf, sched, sinks, loc,
                    uid_next, created, obs >>

\* line 694: the append, without the lock
RouteAppend(t) ==
    /\ pc[t] = "route_append"
    /\ recent_attacks' = DequeAppend(recent_attacks, MAX_ATTACKS, Val(loc[t].attack))
    /\ deque_state' = deque_state + 1
    /\ appended' = Append(appended, Val(loc[t].attack))
    /\ Goto(t, "route_save")
    /\ UNCHANGED << recent_attacks_lock, caches, threat_score_history, now, conf, sched, sinks, loc,
                    uid_next, created, obs >>

\* line 697: an exception of the save leaves the handler (the framework answers 500)
RouteSave(t, results) ==
    /\ pc[t] = "route_save"
    /\ \E r \in results :
         /\ db' = Saved(db, Val(loc[t].attack), r)
         /\ Goto(t, IF r = "ok" THEN "route_trim" ELSE "route_raised")
    /\ UNCHANGED << shared, caches, threat_score_history, now, conf, sched, emitted, loc, hist >>

\* lines 699-702: deque.pop takes no argument, so the pop would raise
RouteTrim(t) ==
    /\ pc[t] = "route_trim"
    /\ Goto(t, IF Len(recent_attacks) > MAX_ATTACKS THEN "route_raised" ELSE "route_done")
    /\ UNCHANGED << shared, caches, threat_score_history, now, conf, sched, sinks, loc, hist >>

\* ------------------------------------------------------------------------
\* calculate_threat_score (src/app.py 236-351) and its helpers (201-234)
\* ------------------------------------------------------------------------
Min(a, b) == IF a <= b THEN a ELSE b

\* the last n elements of s, all of s when it has fewer: list(s)[-n:]
LastN(s, n) == SubSeq(s, Len(s) - Min(n, Len(s)) + 1, Len(s))

\* lines 266-267: the attacks younger than the analysis window
InWindow(attacks, recent_time) ==
    SelectSeq(attacks, LAMBDA a : a.timestamp > recent_time)

\* line 290-291: severity_weights.get(severity, 1)
SeverityWeight(sev) ==
    CASE sev = "Critical" -> 10
      [] sev = "High"     -> 6
      [] sev = "Medium"   -> 3
      [] OTHER            -> 1

RECURSIVE SeveritySum(_)
SeveritySum(attacks) ==
    IF attacks = << >> THEN 0
    ELSE SeverityWeight(Head(attacks).severity) + SeveritySum(Tail(attacks))

\* a frequency factor without its cap
FrequencyTenths_Uncapped(attacks) == 15 * Len(attacks)

\* line 287, in tenths: min(30.0, n * 1.5)
FrequencyTenths(attacks) == Min(300, 15 * Len(attacks))

\* a severity factor without its cap
SeverityTenths_Uncapped(attacks) == 5 * SeveritySum(attacks)

\* line 292, in tenths: min(40.0, sum / 2.0)
SeverityTenths(attacks) == Min(400, 5 * SeveritySum(attacks))

\* lines 295-296, in tenths: min(15.0, unique_types * 2.0)
DiversityTenths(attacks) ==
    Min(150, 20 * Cardinality({ attacks[i].attack_type : i \in 1..Len(attacks) }))

\* line 299-301: the count of the most frequent destination country
TopTargetCount(attacks) ==
    LET countries == { attacks[i].destination.country : i \in 1..Len(attacks) }
        count(c) == Cardinality({ i \in 1..Len(attacks) :
                                    attacks[i].destination.country = c })
    IN  CHOOSE n \in { count(c) : c \in countries } :
            \A c \in countries : count(c) <= n

\* line 302, as a fraction over Len(attacks): min(15.0, (top / len) * 20.0);
\* every attack of the buffer has a destination, so len(target_countries) is
\* the number of attacks
ConcentrationNum(attacks) == Min(15 * Len(attacks), 20 * TopTargetCount(attacks))

\* round(num / den, 0) as Python rounds: to the nearest, ties to even
RoundHalfEven(num, den) ==
    LET q == num \div den
        r == num % den
    IN  IF 2 * r < den THEN q
        ELSE IF 2 * r > den THEN q + 1
        ELSE IF q % 2 = 0 THEN q ELSE q + 1

\* a total that rounds the sum to the nearest integer
TotalScore_Rounded(attacks) ==
    LET n == Len(attacks)
        tenths == FrequencyTenths(attacks) + SeverityTenths(attacks)
                      + DiversityTenths(attacks)
    IN  Min(100, RoundHalfEven(tenths * n + 10 * ConcentrationNum(attacks), 10 * n))

\* lines 307-309: min(100, int(frequency + severity + diversity + concentration))
TotalScore(attacks) ==
    LET n == Len(attacks)
        tenths == FrequencyTenths(attacks) + SeverityTenths(attacks)
                      + DiversityTenths(attacks)
    IN  Min(100, (tenths * n + 10 * ConcentrationNum(attacks)) \div (10 * n))

\* lines 322-327: the factors rounded to one decimal place, in tenths
RoundedFactors(attacks) ==
    [frequency |-> FrequencyTenths(attacks),
     severity |-> SeverityTenths(attacks),
     diversity |-> DiversityTenths(attacks),
     concentration |-> RoundHalfEven(10 * ConcentrationNum(attacks), Len(attacks))]

\* thresholds that a score must exceed
ClassifyThreatLevel_Strict(score) ==
    IF score > THREAT_LEVEL_CRITICAL THEN "Critical"
    ELSE IF score > THREAT_LEVEL_HIGH THEN "High"
    ELSE IF score > THREAT_LEVEL_MEDIUM THEN "Medium"
    ELSE "Low"

\* lines 208-217
ClassifyThreatLevel(score) ==
    IF score >= THREAT_LEVEL_CRITICAL THEN "Critical"
    ELSE IF score >= THREAT_LEVEL_HIGH THEN "High"
    ELSE IF score >= THREAT_LEVEL_MEDIUM THEN "Medium"
    ELSE "Low"

RECURSIVE ScoreSum(_)
ScoreSum(records) ==
    IF records = << >> THEN 0 ELSE Head(records).score + ScoreSum(Tail(records))

\* comparisons that count a score on the edge of the band as outside it
CalculateTrend_Inclusive(history, current_score) ==
    IF Len(history) < 5 THEN "stable"
    ELSE LET total == ScoreSum(LastN(history, 5))
         IN  IF 5 * current_score >= total + 5 * ESCALATION_THRESHOLD THEN "escalating"
             ELSE IF 5 * current_score <= total - 5 * DE_ESCALATION_THRESHOLD
                  THEN "de-escalating"
             ELSE "stable"

\* a band twice as wide
CalculateTrend_WideBand(history, current_score) ==
    IF Len(history) < 5 THEN "stable"
    ELSE LET total == ScoreSum(LastN(history, 5))
         IN  IF 5 * current_score > total + 10 * ESCALATION_THRESHOLD THEN "escalating"
             ELSE IF 5 * current_score < total - 10 * DE_ESCALATION_THRESHOLD
                  THEN "de-escalating"
             ELSE "stable"

\* lines 219-234; the average of the last 5 scores is their sum over 5
CalculateTrend(history, current_score) ==
    IF Len(history) < 5 THEN "stable"
    ELSE LET total == ScoreSum(LastN(history, 5))
         IN  IF 5 * current_score > total + 5 * ESCALATION_THRESHOLD THEN "escalating"
             ELSE IF 5 * current_score < total - 5 * DE_ESCALATION_THRESHOLD
                  THEN "de-escalating"
             ELSE "stable"

\* lines 318-329
ScoreResult(attacks, history, time) ==
    [score |-> TotalScore(attacks),
     level |-> ClassifyThreatLevel(TotalScore(attacks)),
     trend |-> CalculateTrend(history, TotalScore(attacks)),
     factors |-> RoundedFactors(attacks),
     timestamp |-> time]

\* an empty-buffer answer with a level that is not the lowest
EmptyAnswer_Medium(l, time) ==
    [l EXCEPT !.result = Some([ZeroScore(time) EXCEPT !.level = "Medium"]),
              !.status = "empty"]

\* lines 250-262 and 272-284: the answer for nothing to analyse
EmptyAnswer(l, time) ==
    [l EXCEPT !.result = Some(ZeroScore(time)), !.status = "empty"]

\* an exception that leaves calculate_threat_score
Caught_Propagates(l, time) ==
    [l EXCEPT !.result = None, !.raised = TRUE, !.status = "crashed"]

\* lines 338-351: the answer when anything in the try block raised
Caught(l, time) ==
    [l EXCEPT !.result = Some(ZeroScore(time)), !.raised = TRUE, !.status = "error"]

\* lines 249-265: the emptiness test, the start of the window, and the iterator
\* of the list comprehension, which remembers the deque's mutation counter
ScoreBegin(t) ==
    /\ pc[t] = "score_idle"
    /\ obs["score"] < MaxScores
    /\ Count("score")
    /\ IF recent_attacks = << >>
       THEN /\ SetLoc(t, EmptyAnswer([NoLocals EXCEPT !.hist_before = threat_score_history,
                                                      !.buf_at_call = recent_attacks,
                                                      !.prev_list = loc[t].recent_attack_list,
                                                      !.prev_result = loc[t].result,
                                                      !.prev_raised = loc[t].raised],
                                     now))
            /\ Goto(t, "score_idle")
       ELSE /\ SetLoc(t, [NoLocals EXCEPT !.hist_before = threat_score_history,
                                          !.buf_at_call = recent_attacks,
                                          !.prev_list = loc[t].recent_attack_list,
                                          !.prev_result = loc[t].result,
                                          !.prev_raised = loc[t].raised,
                                          !.current_time = now,
                                          !.it_state = deque_state,
                                          !.status = "iterating"])
            /\ Goto(t, "score_filter")
    /\ UNCHANGED << shared, caches, threat_score_history, now, conf, sched, sinks,
                    uid_next, created, appended >>

\* a handler that stores the zero score it answers with
ScoreFilter_StoresFailure(t) ==
    /\ pc[t] = "score_filter"
    /\ IF deque_state # loc[t].it_state
       THEN /\ SetLoc(t, Caught(loc[t], now))
            /\ threat_score_history' =
                   DequeAppend(threat_score_history, MAX_THREAT_HISTORY, ZeroScore(now))
            /\ Goto(t, "score_idle")
       ELSE LET window == InWindow(recent_attacks,
                                   loc[t].current_time - ANALYSIS_WINDOW_SECONDS)
            IN  /\ SetLoc(t, [loc[t] EXCEPT !.recent_attack_list = window,
                                            !.status = "filtered"])
                /\ Goto(t, IF window = << >> THEN "score_fallback" ELSE "score_compute")
                /\ UNCHANGED threat_score_history
    /\ UNCHANGED << shared, caches, now, conf, sched, sinks, hist >>

\* lines 266-269: the comprehension ends; a deque iterator raises RuntimeError
\* ("deque mutated during iteration") when the deque changed since it was made
ScoreFilter(t) ==
    /\ pc[t] = "score_filter"
    /\ IF deque_state # loc[t].it_state
       THEN /\ SetLoc(t, Caught(loc[t], now))
            /\ Goto(t, "score_idle")
       ELSE LET window == InWindow(recent_attacks,
                                   loc[t].current_time - ANALYSIS_WINDOW_SECONDS)
            IN  /\ SetLoc(t, [loc[t] EXCEPT !.recent_attack_list = window,
                                            !.status = "filtered"])
                /\ Goto(t, IF window = << >> THEN "score_fallback" ELSE "score_compute")
    /\ UNCHANGED << shared, caches, threat_score_history, now, conf, sched, sinks, hist >>

\* a fallback that takes the whole buffer
ScoreFallback_WholeBuffer(t) ==
    /\ pc[t] = "score_fallback"
    /\ IF recent_attacks = << >>
       THEN /\ SetLoc(t, EmptyAnswer(loc[t], now))
            /\ Goto(t, "score_idle")
       ELSE /\ SetLoc(t, [loc[t] EXCEPT !.recent_attack_list = recent_attacks,
                                        !.status = "fallback"])
            /\ Goto(t, "score_compute")
    /\ UNCHANGED << shared, caches, threat_score_history, now, conf, sched, sinks, hist >>

\* lines 269-284: nothing in the window, so the last 10 of the buffer as it is now
ScoreFallback(t) ==
    /\ pc[t] = "score_fallback"
    /\ IF LastN(recent_attacks, 10) = << >>
       THEN /\ SetLoc(t, EmptyAnswer(loc[t], now))
            /\ Goto(t, "score_idle")
       ELSE /\ SetLoc(t, [loc[t] EXCEPT !.recent_attack_list = LastN(recent_attacks, 10),
                                        !.status = "fallback"])
            /\ Goto(t, "score_compute")
    /\ UNCHANGED << shared, caches, threat_score_history, now, conf, sched, sinks, hist >>

\* a computation that classifies the trend against the history with the new
\* record already in it
ScoreCompute_TrendIncludesNew(t) ==
    /\ pc[t] = "score_compute"
    /\ LET r == ScoreResult(loc[t].recent_attack_list, threat_score_history, now)
       IN  SetLoc(t, [loc[t] EXCEPT
               !.result = Some([r EXCEPT !.trend =
                                   CalculateTrend(Append(threat_score_history, r), r.score)]),
               !.status = "computed"])
    /\ Goto(t, "score_append")
    /\ UNCHANGED << shared, caches, threat_score_history, now, conf, sched, sinks, hist >>

\* lines 286-329: the factors, the total, the level, and the trend against the
\* history as it is now
ScoreCompute(t) ==
    /\ pc[t] = "score_compute"
    /\ SetLoc(t, [loc[t] EXCEPT
            !.result = Some(ScoreResult(loc[t].recent_attack_list,
                                        threat_score_history, now)),
            !.status = "computed"])
    /\ Goto(t, "score_append")
    /\ UNCHANGED << shared, caches, threat_score_history, now, conf, sched, sinks, hist >>

\* a history without a capacity
ScoreAppend_Unbounded(t) ==
    /\ pc[t] = "score_append"
    /\ threat_score_history' = Append(threat_score_history, Val(loc[t].result))
    /\ obs' = [obs EXCEPT !.scored = Append(@, Val(loc[t].result))]
    /\ SetLoc(t, [loc[t] EXCEPT !.status = "returned"])
    /\ Goto(t, "score_idle")
    /\ UNCHANGED << shared, caches, now, conf, sched, sinks, uid_next, created, appended >>

\* an append that stores the record twice
ScoreAppend_Twice(t) ==
    /\ pc[t] = "score_append"
    /\ threat_score_history' =
           DequeAppend(DequeAppend(threat_score_history, MAX_THREAT_HISTORY,
                                   Val(loc[t].result)),
                       MAX_THREAT_HISTORY, Val(loc[t].result))
    /\ obs' = [obs EXCEPT !.scored = Append(Append(@, Val(loc[t].result)),
                                            Val(loc[t].result))]
    /\ SetLoc(t, [loc[t] EXCEPT !.status = "returned"])
    /\ Goto(t, "score_idle")
    /\ UNCHANGED << shared, caches, now, conf, sched, sinks, uid_next, created, appended >>

\* lines 331-336
ScoreAppend(t) ==
    /\ pc[t] = "score_append"
    /\ threat_score_history' =
           DequeAppend(threat_score_history, MAX_THREAT_HISTORY, Val(loc[t].result))
    /\ obs' = [obs EXCEPT !.scored = Append(@, Val(loc[t].result))]
    /\ SetLoc(t, [loc[t] EXCEPT !.status = "returned"])
    /\ Goto(t, "score_idle")
    /\ UNCHANGED << shared, caches, now, conf, sched, sinks, uid_next, created, appended >>

\* ------------------------------------------------------------------------
\* calculate_country_threat_scores (src/app.py 354-399)
\* ------------------------------------------------------------------------
\* lines 373-376: the keys of country_attacks, in the order of their insertion
RECURSIVE CountryOrder(_)
CountryOrder(attacks) ==
    IF attacks = << >> THEN << >>
    ELSE LET before == CountryOrder(SubSeq(attacks, 1, Len(attacks) - 1))
             last == attacks[Len(attacks)]
         IN  IF "destination" \in DOMAIN last /\ "country" \in DOMAIN last.destination
                /\ last.destination.country \notin ToSet(before)
             THEN Append(before, last.destination.country)
             ELSE before

\* line 382-383: severity_weights.get(a.get('severity', 'Low'), 0)
CountrySeverityWeight(sev) ==
    CASE sev = "Critical" -> 4
      [] sev = "High"     -> 3
      [] sev = "Medium"   -> 2
      [] sev = "Low"      -> 1
      [] OTHER            -> 0

RECURSIVE CountrySeveritySum(_)
CountrySeveritySum(attacks) ==
    IF attacks = << >> THEN 0
    ELSE CountrySeverityWeight(Get(Head(attacks), "severity", "Low"))
             + CountrySeveritySum(Tail(attacks))

\* lines 379-392: the entry of one country
CountryEntry(attacks, country) ==
    LET mine == SelectSeq(attacks, LAMBDA a : "destination" \in DOMAIN a
                                              /\ "country" \in DOMAIN a.destination
                                              /\ a.destination.country = country)
    IN  [country |-> country,
         score |-> Min(100, Len(mine) * 5 + CountrySeveritySum(mine) * 3),
         attack_count |-> Len(mine),
         critical_count |-> Len(SelectSeq(mine, LAMBDA a : Get(a, "severity", "") = "Critical"))]

\* a sort that puts an entry before the earlier entries of the same score
RECURSIVE SortByScore_TiesReversed(_)
SortByScore_TiesReversed(entries) ==
    IF entries = << >> THEN << >>
    ELSE LET sorted == SortByScore_TiesReversed(SubSeq(entries, 1, Len(entries) - 1))
             e == entries[Len(entries)]
             ahead == SelectSeq(sorted, LAMBDA x : x.score > e.score)
             behind == SelectSeq(sorted, LAMBDA x : x.score <= e.score)
         IN  ahead \o << e >> \o behind

\* line 395: list.sort(key = score, reverse = True), a stable sort: an entry goes
\* behind the earlier entries of the same or a higher score
RECURSIVE SortByScore(_)
SortByScore(entries) ==
    IF entries = << >> THEN << >>
    ELSE LET sorted == SortByScore(SubSeq(entries, 1, Len(entries) - 1))
             e == entries[Len(entries)]
             ahead == SelectSeq(sorted, LAMBDA x : x.score >= e.score)
             behind == SelectSeq(sorted, LAMBDA x : x.score < e.score)
         IN  ahead \o << e >> \o behind

\* lines 373-396: the answer for the attacks analysed
CountryScores(attacks) ==
    LET order == CountryOrder(attacks)
        sorted == SortByScore([i \in 1..Len(order) |-> CountryEntry(attacks, order[i])])
    IN  SubSeq(sorted, 1, Min(10, Len(sorted)))

\* lines 359-364: the emptiness test, the start of the window and the iterator
CountryBegin(t) ==
    /\ pc[t] = "country_idle"
    /\ IF recent_attacks = << >>
       THEN /\ SetLoc(t, [NoLocals EXCEPT !.buf_at_call = recent_attacks,
                                          !.status = "country_empty"])
            /\ Goto(t, "country_called")
       ELSE /\ SetLoc(t, [NoLocals EXCEPT !.buf_at_call = recent_attacks,
                                          !.current_time = now,
                                          !.it_state = deque_state,
                                          !.status = "iterating"])
            /\ Goto(t, "country_filter")
    /\ UNCHANGED << shared, caches, threat_score_history, now, conf, sched, sinks, hist >>

\* lines 364-368 and 397-399: the comprehension ends, raising when the deque
\* changed meanwhile; nothing in the window means the last 30 of the buffer
CountryFilter(t) ==
    /\ pc[t] = "country_filter"
    /\ IF deque_state # loc[t].it_state
       THEN /\ SetLoc(t, [loc[t] EXCEPT !.raised = TRUE, !.country_scores = << >>,
                                        !.status = "error"])
            /\ Goto(t, "country_called")
       ELSE LET window == InWindow(recent_attacks, loc[t].current_time - 600)
            IN  /\ SetLoc(t, [loc[t] EXCEPT
                         !.recent_attack_list =
                             IF window = << >> THEN LastN(recent_attacks, 30) ELSE window,
                         !.status = IF window = << >> THEN "fallback" ELSE "filtered"])
                /\ Goto(t, "country_compute")
    /\ UNCHANGED << shared, caches, threat_score_history, now, conf, sched, sinks, hist >>

\* lines 370-396
CountryCompute(t) ==
    /\ pc[t] = "country_compute"
    /\ SetLoc(t, [loc[t] EXCEPT !.country_scores = CountryScores(loc[t].recent_attack_list),
                                !.status = "country_returned"])
    /\ Goto(t, "country_called")
    /\ UNCHANGED << shared, caches, threat_score_history, now, conf, sched, sinks, hist >>

\* get_country_threats (859-862) answers and the request ends
CountryDone(t) ==
    /\ pc[t] = "country_called"
    /\ SetLoc(t, NoLocals)
    /\ Goto(t, "country_idle")
    /\ UNCHANGED << shared, caches, threat_score_history, now, conf, sched, sinks, hist >>

\* ------------------------------------------------------------------------
\* ThreatScoringService (src/services/threat_scoring.py), with the default
\* configuration; factors are in tenths, the concentration a fraction
\* ------------------------------------------------------------------------
\* line 103
calculate_frequency(attacks) == Min(300, 15 * Len(attacks))

\* lines 107-111
RECURSIVE severity_sum(_)
severity_sum(attacks) ==
    IF attacks = << >> THEN 0
    ELSE SeverityWeight(Get(Head(attacks), "severity", "Low")) + severity_sum(Tail(attacks))

\* line 112
calculate_severity(attacks) == Min(400, 5 * severity_sum(attacks))

\* lines 116-117
calculate_diversity(attacks) ==
    Min(150, 20 * Cardinality({ Get(attacks[i], "attack_type", "Unknown") :
                                    i \in 1..Len(attacks) }))

\* lines 121-125: the countries of the attacks that have a destination
target_countries(attacks) ==
    LET having == SelectSeq(attacks, LAMBDA a : "destination" \in DOMAIN a)
    IN  [i \in 1..Len(having) |-> having[i].destination.country]

\* line 130: Counter(target_countries).most_common(1)[0][1]
top_target_count(countries) ==
    LET count(c) == Cardinality({ i \in 1..Len(countries) : countries[i] = c })
    IN  CHOOSE n \in { count(c) : c \in ToSet(countries) } :
            \A c \in ToSet(countries) : count(c) <= n

\* a concentration that divides by the number of attacks, with or without a
\* destination
calculate_concentration_OverAll(attacks) ==
    LET countries == target_countries(attacks)
    IN  IF countries = << >> THEN [num |-> 0, den |-> 1]
        ELSE [num |-> Min(15 * Len(attacks), 20 * top_target_count(countries)),
              den |-> Len(attacks)]

\* lines 127-131, as the fraction num / den of a point
calculate_concentration(attacks) ==
    LET countries == target_countries(attacks)
    IN  IF countries = << >> THEN [num |-> 0, den |-> 1]
        ELSE [num |-> Min(15 * Len(countries), 20 * top_target_count(countries)),
              den |-> Len(countries)]

\* lines 133-142
classify_level(score) ==
    IF score >= 80 THEN "Critical"
    ELSE IF score >= 60 THEN "High"
    ELSE IF score >= 35 THEN "Medium"
    ELSE "Low"

\* lines 144-157
calculate_trend(history, current_score) ==
    IF Len(history) < 5 THEN "stable"
    ELSE LET total == ScoreSum(LastN(history, 5))
         IN  IF 5 * current_score > total + 50 THEN "escalating"
             ELSE IF 5 * current_score < total - 50 THEN "de-escalating"
             ELSE "stable"

\* lines 166-179
empty_score_result(time) ==
    [score |-> 0, level |-> "Low", trend |-> "stable",
     factors |-> [frequency |-> 0, severity |-> 0, diversity |-> 0, concentration |-> 0],
     timestamp |-> time]

\* a window that takes in the attacks made exactly one window ago
filtered_attacks_Inclusive(attacks, time) ==
    LET inside == SelectSeq(attacks, LAMBDA a : a.timestamp >= time - 300)
    IN  IF inside # << >> THEN inside ELSE LastN(attacks, 10)

\* lines 54-61: the attacks analysed
filtered_attacks(attacks, time) ==
    LET inside == SelectSeq(attacks, LAMBDA a : a.timestamp > time - 300)
    IN  IF inside # << >> THEN inside ELSE LastN(attacks, 10)

\* lines 50-95
calculate_score(attacks, history, time) ==
    IF attacks = << >> \/ filtered_attacks(attacks, time) = << >>
    THEN empty_score_result(time)
    ELSE LET analysed == filtered_attacks(attacks, time)
             c == calculate_concentration(analysed)
             tenths == calculate_frequency(analysed) + calculate_severity(analysed)
                           + calculate_diversity(analysed)
             total == Min(100, (tenths * c.den + 10 * c.num) \div (10 * c.den))
         IN  [score |-> total,
              level |-> classify_level(total),
              trend |-> calculate_trend(history, total),
              factors |-> [frequency |-> calculate_frequency(analysed),
                           severity |-> calculate_severity(analysed),
                           diversity |-> calculate_diversity(analysed),
                           concentration |-> RoundHalfEven(10 * c.num, c.den)],
              timestamp |-> time]

\* a call of calculate_score(attacks, history) for some arguments of `inputs` and
\* `histories`; the function keeps no state of its own
ServiceCall(t, inputs, histories) ==
    /\ pc[t] = "svc_idle"
    /\ \E attacks \in inputs : \E history \in histories :
         SetLoc(t, [NoLocals EXCEPT
                        !.buf_at_call = attacks,
                        !.hist_before = history,
                        !.current_time = now,
                        !.recent_attack_list = filtered_attacks(attacks, now),
                        !.result = Some(calculate_score(attacks, history, now)),
                        !.status = "svc_returned"])
    /\ Goto(t, "svc_called")
    /\ UNCHANGED << shared, caches, threat_score_history, now, conf, sched, sinks, hist >>

\* the caller drops the result
ServiceDone(t) ==
    /\ pc[t] = "svc_called"
    /\ SetLoc(t, NoLocals)
    /\ Goto(t, "svc_idle")
    /\ UNCHANGED << shared, caches, threat_score_history, now, conf, sched, sinks, hist >>

\* ------------------------------------------------------------------------
\* utils/config.py (src/utils/config.py)
\* ------------------------------------------------------------------------
\* A str is the sequence of its characters.  A value is a record that carries
\* its Python type: num and exp hold an int, a bool (0 or 1) or a float
\* (num * 10^exp, num without trailing zeros), text a str, elems a list, items a
\* dict (a function from its keys).
Blank == [type |-> "NoneType", num |-> 0, exp |-> 0, text |-> << >>, elems |-> << >>,
          items |-> << >>]
NoneV == Blank
IntV(n) == [Blank EXCEPT !.type = "int", !.num = n]
BoolV(b) == [Blank EXCEPT !.type = "bool", !.num = IF b THEN 1 ELSE 0]
FloatV(m, e) == [Blank EXCEPT !.type = "float", !.num = m, !.exp = e]
SpecialFloatV(name) == [Blank EXCEPT !.type = "float", !.text = name]
StrV(s) == [Blank EXCEPT !.type = "str", !.text = s]
ListV(l) == [Blank EXCEPT !.type = "list", !.elems = l]
DictV(d) == [Blank EXCEPT !.type = "dict", !.items = d]
EmptyDict == [Blank EXCEPT !.type = "dict"]

\* bool(value), as the `or` of line 39 takes it
Truthy(v) ==
    CASE v.type = "NoneType" -> FALSE
      [] v.type \in {"int", "bool", "float"} -> v.num # 0 \/ v.text # << >>
      [] v.type = "str" -> v.text # << >>
      [] v.type = "list" -> v.elems # << >>
      [] OTHER -> DOMAIN v.items # {}

\* str.lower, str.upper and str.replace, character by character
LowerCase == << "a", "b", "c", "d", "e", "f", "g", "h", "i", "j", "k", "l", "m", "n", "o", "p", "q", "r", "s", "t", "u", "v", "w", "x", "y", "z" >>
UpperCase == << "A", "B", "C", "D", "E", "F", "G", "H", "I", "J", "K", "L", "M", "N", "O", "P", "Q", "R", "S", "T", "U", "V", "W", "X", "Y", "Z" >>
lower(s) ==
    [i \in 1..Len(s) |->
        IF \E k \in 1..26 : UpperCase[k] = s[i]
        THEN LowerCase[CHOOSE k \in 1..26 : UpperCase[k] = s[i]] ELSE s[i]]
upper(s) ==
    [i \in 1..Len(s) |->
        IF \E k \in 1..26 : LowerCase[k] = s[i]
        THEN UpperCase[CHOOSE k \in 1..26 : LowerCase[k] = s[i]] ELSE s[i]]
replace(s, old, new) == [i \in 1..Len(s) |-> IF s[i] = old THEN new ELSE s[i]]

\* the index of the first character of s that is in `chars`, 0 if there is none
Find(s, chars) ==
    IF \E i \in 1..Len(s) : s[i] \in chars
    THEN CHOOSE i \in 1..Len(s) : s[i] \in chars /\ \A j \in 1..(i - 1) : s[j] \notin chars
    ELSE 0

\* str.split(sep)
RECURSIVE split(_, _)
split(s, sep) ==
    LET i == Find(s, {sep})
    IN  IF i = 0 THEN << s >>
        ELSE << SubSeq(s, 1, i - 1) >> \o split(SubSeq(s, i + 1, Len(s)), sep)

\* the literals int() and float() accept: blanks around, a sign, decimal digits
\* with single underscores between them
Whitespace == {" ", "\t", "\n"}
RECURSIVE strip(_)
strip(s) ==
    IF s = << >> THEN s
    ELSE IF Head(s) \in Whitespace THEN strip(Tail(s))
    ELSE IF s[Len(s)] \in Whitespace THEN strip(SubSeq(s, 1, Len(s) - 1))
    ELSE s
Digits == << "0", "1", "2", "3", "4", "5", "6", "7", "8", "9" >>
IsDigit(c) == \E k \in 1..10 : Digits[k] = c
DigitValue(c) == (CHOOSE k \in 1..10 : Digits[k] = c) - 1
IsDigitRun(s) ==
    /\ s # << >>
    /\ \A i \in 1..Len(s) :
           \/ IsDigit(s[i])
           \/ /\ s[i] = "_"
              /\ 1 < i
              /\ i < Len(s)
              /\ IsDigit(s[i - 1])
              /\ IsDigit(s[i + 1])
DigitsOf(s) == SelectSeq(s, IsDigit)
RECURSIVE NatOf(_)
NatOf(d) ==
    IF d = << >> THEN 0
    ELSE 10 * NatOf(SubSeq(d, 1, Len(d) - 1)) + DigitValue(d[Len(d)])
Signed(s) == s # << >> /\ Head(s) \in {"+", "-"}
Unsigned(s) == IF Signed(s) THEN Tail(s) ELSE s
SignOf(s) == IF s # << >> /\ Head(s) = "-" THEN -1 ELSE 1

\* int(env_value) of line 136: does it return, and what
IsInt(s) == IsDigitRun(Unsigned(strip(s)))
IntOf(s) == SignOf(strip(s)) * NatOf(DigitsOf(Unsigned(strip(s))))

\* float(env_value) of line 139: does it return, and what
Mantissa(s) == IF Find(s, {"e", "E"}) = 0 THEN s ELSE SubSeq(s, 1, Find(s, {"e", "E"}) - 1)
HasExponent(s) == Find(s, {"e", "E"}) # 0
Exponent(s) == SubSeq(s, Find(s, {"e", "E"}) + 1, Len(s))
IntPart(m) == IF Find(m, {"."}) = 0 THEN m ELSE SubSeq(m, 1, Find(m, {"."}) - 1)
FracPart(m) == IF Find(m, {"."}) = 0 THEN << >> ELSE SubSeq(m, Find(m, {"."}) + 1, Len(m))
SpecialFloats == { << "i", "n", "f" >>, << "i", "n", "f", "i", "n", "i", "t", "y" >>, << "n", "a", "n" >> }
IsDecimal(s) ==
    /\ IntPart(Mantissa(s)) = << >> \/ IsDigitRun(IntPart(Mantissa(s)))
    /\ FracPart(Mantissa(s)) = << >> \/ IsDigitRun(FracPart(Mantissa(s)))
    /\ IntPart(Mantissa(s)) # << >> \/ FracPart(Mantissa(s)) # << >>
    /\ HasExponent(s) => IsDigitRun(Unsigned(Exponent(s)))
IsFloat(s) ==
    \/ lower(Unsigned(strip(s))) \in SpecialFloats
    \/ IsDecimal(Unsigned(strip(s)))
RECURSIVE Normal(_, _)
Normal(m, e) ==
    IF m = 0 THEN FloatV(0, 0)
    ELSE IF m % 10 = 0 THEN Normal(m \div 10, e + 1)
    ELSE FloatV(m, e)
DecimalOf(sign, s) ==
    Normal(sign * NatOf(DigitsOf(IntPart(Mantissa(s))) \o DigitsOf(FracPart(Mantissa(s)))),
           (IF HasExponent(s)
            THEN SignOf(Exponent(s)) * NatOf(DigitsOf(Unsigned(Exponent(s))))
            ELSE 0) - Len(DigitsOf(FracPart(Mantissa(s)))))
FloatOf(s) ==
    IF lower(Unsigned(strip(s))) \in SpecialFloats
    THEN SpecialFloatV(<< SignOf(strip(s)) >> \o lower(Unsigned(strip(s))))
    ELSE DecimalOf(SignOf(strip(s)), Unsigned(strip(s)))

\* lines 44-108
get_default_config ==
    DictV(
            (<< "a", "p", "p" >> :> DictV(
                (<< "d", "e", "b", "u", "g" >> :> BoolV(FALSE)) @@
                (<< "p", "o", "r", "t" >> :> IntV(5000)) @@
                (<< "h", "o", "s", "t" >> :> StrV(<< "0", ".", "0", ".", "0", ".", "0" >>)))) @@
            (<< "s", "e", "c", "u", "r", "i", "t", "y" >> :> DictV(
                (<< "c", "o", "r", "s", "_", "o", "r", "i", "g", "i", "n", "s" >> :> ListV(<< StrV(<< "h", "t", "t", "p", ":", "/", "/", "l", "o", "c", "a", "l", "h", "o", "s", "t", ":", "3", "0", "0", "0" >>), StrV(<< "h", "t", "t", "p", ":", "/", "/", "l", "o", "c", "a", "l", "h", "o", "s", "t", ":", "5", "0", "0", "0" >>) >>)) @@
                (<< "r", "a", "t", "e", "_", "l", "i", "m", "i", "t" >> :> DictV(
                    (<< "d", "e", "f", "a", "u", "l", "t", "_", "l", "i", "m", "i", "t", "s" >> :> ListV(<< StrV(<< "2", "0", "0", " ", "p", "e", "r", " ", "d", "a", "y" >>), StrV(<< "5", "0", " ", "p", "e", "r", " ", "h", "o", "u", "r" >>) >>)) @@
                    (<< "e", "x", "p", "o", "r", "t", "_", "l", "i", "m", "i", "t" >> :> StrV(<< "1", "0", " ", "p", "e", "r", " ", "h", "o", "u", "r" >>)) @@
                    (<< "s", "t", "o", "r", "a", "g", "e" >> :> StrV(<< "m", "e", "m", "o", "r", "y", ":", "/", "/" >>)))))) @@
            (<< "a", "t", "t", "a", "c", "k", "_", "t", "r", "a", "c", "k", "i", "n", "g" >> :> DictV(
                (<< "m", "a", "x", "_", "a", "t", "t", "a", "c", "k", "s" >> :> IntV(100)) @@
                (<< "m", "a", "x", "_", "t", "h", "r", "e", "a", "t", "_", "h", "i", "s", "t", "o", "r", "y" >> :> IntV(60)))) @@
            (<< "t", "h", "r", "e", "a", "t", "_", "s", "c", "o", "r", "i", "n", "g" >> :> DictV(
                (<< "s", "c", "o", "r", "e", "_", "p", "r", "e", "c", "i", "s", "i", "o", "n" >> :> IntV(1)) @@
                (<< "a", "n", "a", "l", "y", "s", "i", "s", "_", "w", "i", "n", "d", "o", "w", "_", "s", "e", "c", "o", "n", "d", "s" >> :> IntV(300)) @@
                (<< "u", "p", "d", "a", "t", "e", "_", "i", "n", "t", "e", "r", "v", "a", "l" >> :> IntV(5)) @@
                (<< "t", "h", "r", "e", "s", "h", "o", "l", "d", "s" >> :> DictV(
                    (<< "c", "r", "i", "t", "i", "c", "a", "l" >> :> IntV(80)) @@
                    (<< "h", "i", "g", "h" >> :> IntV(60)) @@
                    (<< "m", "e", "d", "i", "u", "m" >> :> IntV(35)))) @@
                (<< "t", "r", "e", "n", "d", "_", "d", "e", "t", "e", "c", "t", "i", "o", "n" >> :> DictV(
                    (<< "e", "s", "c", "a", "l", "a", "t", "i", "o", "n", "_", "t", "h", "r", "e", "s", "h", "o", "l", "d" >> :> IntV(10)) @@
                    (<< "d", "e", "_", "e", "s", "c", "a", "l", "a", "t", "i", "o", "n", "_", "t", "h", "r", "e", "s", "h", "o", "l", "d" >> :> IntV(10)))))) @@
            (<< "c", "a", "c", "h", "e" >> :> DictV(
                (<< "d", "u", "r", "a", "t", "i", "o", "n" >> :> IntV(90)) @@
                (<< "i", "p", "_", "g", "e", "o", "l", "o", "c", "a", "t", "i", "o", "n", "_", "d", "e", "l", "a", "y" >> :> FloatV(15, -1)))) @@
            (<< "a", "p", "i" >> :> DictV(
                (<< "m", "a", "x", "_", "e", "x", "p", "o", "r", "t", "_", "l", "i", "m", "i", "t" >> :> IntV(1000)) @@
                (<< "m", "a", "x", "_", "f", "i", "l", "t", "e", "r", "_", "l", "i", "m", "i", "t" >> :> IntV(1000)) @@
                (<< "d", "e", "f", "a", "u", "l", "t", "_", "e", "x", "p", "o", "r", "t", "_", "l", "i", "m", "i", "t" >> :> IntV(100)) @@
                (<< "m", "a", "x", "_", "t", "i", "m", "e", "_", "r", "a", "n", "g", "e", "_", "m", "i", "n", "u", "t", "e", "s" >> :> IntV(1440)))) @@
            (<< "a", "t", "t", "a", "c", "k", "_", "g", "e", "n", "e", "r", "a", "t", "i", "o", "n" >> :> DictV(
                (<< "u", "s", "_", "a", "t", "t", "a", "c", "k", "_", "p", "r", "o", "b", "a", "b", "i", "l", "i", "t", "y" >> :> FloatV(3, -1)) @@
                (<< "b", "u", "r", "s", "t", "_", "a", "t", "t", "a", "c", "k", "_", "p", "r", "o", "b", "a", "b", "i", "l", "i", "t", "y" >> :> FloatV(1, -1)) @@
                (<< "i", "p", "v", "6", "_", "p", "r", "o", "b", "a", "b", "i", "l", "i", "t", "y" >> :> FloatV(4, -1)) @@
                (<< "i", "n", "t", "e", "n", "s", "i", "t", "y" >> :> DictV(
                    (<< "m", "i", "n" >> :> FloatV(3, -1)) @@
                    (<< "m", "a", "x" >> :> FloatV(2, 0)))) @@
                (<< "s", "l", "e", "e", "p", "_", "t", "i", "m", "e" >> :> DictV(
                    (<< "m", "i", "n" >> :> FloatV(1, 0)) @@
                    (<< "m", "a", "x" >> :> FloatV(5, 0)))))) @@
            (<< "d", "a", "t", "a", "b", "a", "s", "e" >> :> DictV(
                (<< "p", "a", "t", "h" >> :> StrV(<< "a", "t", "t", "a", "c", "k", "s", ".", "d", "b" >>)))) @@
            (<< "l", "o", "g", "g", "i", "n", "g" >> :> DictV(
                (<< "l", "e", "v", "e", "l" >> :> StrV(<< "I", "N", "F", "O" >>)) @@
                (<< "f", "o", "r", "m", "a", "t" >> :> StrV(<< "%", "(", "a", "s", "c", "t", "i", "m", "e", ")", "s", " ", "-", " ", "%", "(", "n", "a", "m", "e", ")", "s", " ", "-", " ", "%", "(", "l", "e", "v", "e", "l", "n", "a", "m", "e", ")", "s", " ", "-", " ", "%", "(", "m", "e", "s", "s", "a", "g", "e", ")", "s" >>)))))

\* what a file holds: nothing (it does not exist), or a text, known by what
\* yaml.safe_load makes of it: None for an empty text, an exception for a text
\* that is not YAML, the document otherwise
AbsentFile == [kind |-> "absent", document |-> NoneV]
EmptyFile == [kind |-> "empty", document |-> NoneV]
InvalidFile == [kind |-> "invalid", document |-> NoneV]
YamlFile(document) == [kind |-> "yaml", document |-> document]
safe_load(content) ==
    [raised |-> content.kind = "invalid", value |-> content.document]

\* lines 33-42: _load_config, on a file of this content
LoadConfig(content) ==
    IF content.kind = "absent"
    THEN [raised |-> FALSE, value |-> get_default_config]
    ELSE IF safe_load(content).raised
    THEN [raised |-> TRUE, value |-> NoneV]
    ELSE [raised |-> FALSE,
          value |-> IF Truthy(safe_load(content).value)
                    THEN safe_load(content).value ELSE EmptyDict]

\* line 129
EnvPrefix == << "D", "D", "O", "S", "_", "C", "O", "N", "F", "I", "G", "_" >>
env_key(key_path) == EnvPrefix \o replace(upper(key_path), ".", "_")

\* an override that is handed over as the string it is
ParseEnv_Verbatim(env_value) == StrV(env_value)

\* lines 133-141
ParseEnv(env_value) ==
    IF lower(env_value) \in { << "t", "r", "u", "e" >>, << "f", "a", "l", "s", "e" >> }
    THEN BoolV(lower(env_value) = << "t", "r", "u", "e" >>)
    ELSE IF IsInt(env_value) THEN IntV(IntOf(env_value))
    ELSE IF IsFloat(env_value) THEN FloatOf(env_value)
    ELSE StrV(env_value)

\* a lookup that answers None for a missing key
RECURSIVE Navigate_NoDefault(_, _, _)
Navigate_NoDefault(value, keys, default) ==
    IF keys = << >> THEN value
    ELSE IF value.type = "dict" /\ Head(keys) \in DOMAIN value.items
    THEN Navigate_NoDefault(value.items[Head(keys)], Tail(keys), default)
    ELSE NoneV

\* lines 147-153
RECURSIVE Navigate(_, _, _)
Navigate(value, keys, default) ==
    IF keys = << >> THEN value
    ELSE IF value.type = "dict" /\ Head(keys) \in DOMAIN value.items
    THEN Navigate(value.items[Head(keys)], Tail(keys), default)
    ELSE default

\* lines 128-153: Config.get
get(self, env, key_path, default) ==
    IF env_key(key_path) \in DOMAIN env
    THEN ParseEnv(env[env_key(key_path)])
    ELSE Navigate(self._config, split(key_path, "."), default)

\* the variables of src/app.py
app == << shared, caches, threat_score_history, now, sinks, pc, loc, hist >>

NoRet ==
    [op |-> "", self |-> 0, path |-> "", key_path |-> << >>, default |-> NoneV,
     value |-> NoneV, raised |-> FALSE, before |-> None]

\* lines 23-31: Config(config_path); an exception of _load_config leaves the
\* constructor, and no object is made
ConfigInit(path, max_configs) ==
    /\ Len(configs) < max_configs
    /\ LET r == LoadConfig(files[path])
       IN  /\ configs' = IF r.raised THEN configs
                         ELSE Append(configs, [config_path |-> path, _config |-> r.value])
           /\ ret' = [NoRet EXCEPT !.op = "Config", !.path = path, !.raised = r.raised,
                                   !.self = IF r.raised THEN 0 ELSE Len(configs) + 1,
                                   !.before = _config]
    /\ UNCHANGED << app, sched, files, environ, _config >>

\* a call of Config.get on the object `self`
ConfigGet(self, key_path, default) ==
    /\ self \in 1..Len(configs)
    /\ ret' = [NoRet EXCEPT !.op = "get", !.self = self, !.path = configs[self].config_path,
                            !.key_path = key_path, !.default = default,
                            !.value = get(configs[self], environ, key_path, default),
                            !.before = _config]
    /\ UNCHANGED << app, sched, files, environ, _config, configs >>

\* lines 29-31 inside get_config and reload_config: the global is assigned only
\* if the constructor returned
Install(op, path) ==
    LET r == LoadConfig(files[path])
    IN  /\ configs' = IF r.raised THEN configs
                      ELSE Append(configs, [config_path |-> path, _config |-> r.value])
        /\ _config' = IF r.raised THEN _config ELSE Some(Len(configs) + 1)
        /\ ret' = [NoRet EXCEPT !.op = op, !.path = path, !.raised = r.raised,
                                !.self = IF r.raised THEN 0 ELSE Len(configs) + 1,
                                !.before = _config]

\* a get_config that makes a new object for a path it has not loaded
get_config_PerPath(path, max_configs) ==
    /\ IF IsNone(_config) \/ configs[Val(_config)].config_path # path
       THEN /\ Len(configs) < max_configs
            /\ Install("get_config", path)
       ELSE /\ ret' = [NoRet EXCEPT !.op = "get_config", !.path = path,
                                    !.self = Val(_config), !.before = _config]
            /\ UNCHANGED << _config, configs >>
    /\ UNCHANGED << app, sched, files, environ >>

\* lines 176-188
get_config(path, max_configs) ==
    /\ IF IsNone(_config)
       THEN /\ Len(configs) < max_configs
            /\ Install("get_config", path)
       ELSE /\ ret' = [NoRet EXCEPT !.op = "get_config", !.path = path,
                                    !.self = Val(_config), !.before = _config]
            /\ UNCHANGED << _config, configs >>
    /\ UNCHANGED << app, sched, files, environ >>

\* lines 191-202
reload_config(path, max_configs) ==
    /\ Len(configs) < max_configs
    /\ Install("reload_config", path)
    /\ UNCHANGED << app, sched, files, environ >>

\* the environment of the process: a file is written or removed, a variable is
\* set or unset (the tests' write_text and monkeypatch.setenv)
WriteFile(path, contents) ==
    /\ \E c \in contents :
         /\ files[path] # c
         /\ files' = [files EXCEPT ![path] = c]
    /\ UNCHANGED << app, sched, environ, _config, configs, ret >>

SetEnv(names, values, max_set) ==
    /\ \E n \in names : \E v \in values :
         /\ n \in DOMAIN environ \/ Cardinality(DOMAIN environ) < max_set
         /\ environ' = [x \in DOMAIN environ \cup {n} |-> IF x = n THEN v ELSE environ[x]]
         /\ environ' # environ
    /\ UNCHANGED << app, sched, files, _config, configs, ret >>

DelEnv(names) ==
    /\ \E n \in names \cap DOMAIN environ :
         environ' = [x \in DOMAIN environ \ {n} |-> environ[x]]
    /\ UNCHANGED << app, sched, files, _config, configs, ret >>

\* the paths of the configuration files
DEFAULT_CONFIG_PATH == "config.yaml"
Paths == {DEFAULT_CONFIG_PATH, "test_config.yaml"}

\* utils/config.py as imported: no object yet (line 173), no file, no override
ConfigUnset ==
    /\ files = [p \in Paths |-> AbsentFile]
    /\ environ = << >>
    /\ _config = None
    /\ configs = << >>
    /\ ret = NoRet

\* ------------------------------------------------------------------------
\* Initial states
\* ------------------------------------------------------------------------
\* nothing observed yet: no operation started, no attack created, no lookup
\* answered, no refresh committed
NoObs(known) ==
    [refresh |-> 0, route |-> 0, score |-> 0, created |-> 0,
     geo_ok |-> known, geo_failed |-> {}, last_good |-> None, scored |-> << >>]

\* the module-level state of src/app.py (lines 135-148), every thread yet to start
ConstructedApp(pcs) ==
    /\ recent_attacks = << >>
    /\ deque_state = 0
    /\ recent_attacks_lock = None
    /\ ip_cache = [ip \in {} |-> GeoDB[ip]]
    /\ threat_ips_cache = {}
    /\ last_fetch_time = 0
    /\ threat_score_history = << >>
    /\ now = StartTime
    /\ db = EmptyBag
    /\ emitted = EmptyBag
    /\ pc = pcs
    /\ loc = [t \in Threads |-> NoLocals]
    /\ uid_next = 1
    /\ created = << >>
    /\ appended = << >>
    /\ obs = NoObs({})
    /\ sched = LoopLocals

\* and utils/config.py as imported
Constructed(pcs) == ConstructedApp(pcs) /\ ConfigUnset

\* the same, once a call of fetch_real_threat_data (by a request to
\* /api/generate_attack or by prefetch_and_start) has filled the pool with `pool`
\* and the locations of the IPs in `known` have been looked up
WarmedUp(pcs, pool, known) ==
    /\ recent_attacks = << >>
    /\ deque_state = 0
    /\ recent_attacks_lock = None
    /\ ip_cache = [ip \in known |-> GeoDB[ip]]
    /\ threat_ips_cache = pool
    /\ last_fetch_time = StartTime
    /\ threat_score_history = << >>
    /\ now = StartTime
    /\ db = EmptyBag
    /\ emitted = EmptyBag
    /\ pc = pcs
    /\ loc = [t \in Threads |-> NoLocals]
    /\ uid_next = 1
    /\ created = << >>
    /\ appended = << >>
    /\ obs = NoObs(known)
    /\ sched = LoopLocals
    /\ ConfigUnset

Off == [t \in Threads |-> "off"]

\* ------------------------------------------------------------------------
\* Spec: the ring buffer under the generation loop and one request to
\* /api/generate_attack, from an empty buffer and from one about to overflow
\* ------------------------------------------------------------------------
RingPool == {"1.1.0.1", "2.2.0.1"}

\* the i-th attack of a generation loop that has drawn US attacks only
UsAttack(i) ==
    Attack(i, i, StartTime, UsLocation("New York"), UsLocation("Chicago"),
           "HTTP Flood", "High", "192.168.1.1", "10.1.1.1", "IPv4", FALSE)

\* the state after k < MAX_ATTACKS iterations of the generation loop that each drew
\* a US attack (GenUs, BcLock, BcAppend, BcSave, BcEmit k times over)
Filled(k, pcs) ==
    /\ recent_attacks = [i \in 1..k |-> UsAttack(i)]
    /\ deque_state = k
    /\ recent_attacks_lock = None
    /\ ip_cache = [ip \in RingPool |-> GeoDB[ip]]
    /\ threat_ips_cache = RingPool
    /\ last_fetch_time = StartTime
    /\ threat_score_history = << >>
    /\ now = StartTime
    /\ db = SetToBag({ UsAttack(i) : i \in 1..k })
    /\ emitted = SetToBag({ UsAttack(i) : i \in 1..k })
    /\ pc = pcs
    /\ loc = [t \in Threads |-> NoLocals]
    /\ uid_next = k + 1
    /\ created = [i \in 1..k |-> i]
    /\ appended = [i \in 1..k |-> UsAttack(i)]
    /\ obs = NoObs(RingPool)
    /\ sched = LoopLocals
    /\ ConfigUnset

RingStarts == {0, MAX_ATTACKS - 2}

Init ==
    \E k \in RingStarts :
        Filled(k, [Off EXCEPT ![GenThread] = "loop", ![RouteThread] = "route_idle"])

Next ==
    \/ GenUs(GenThread, {"New York"}, {"HTTP Flood"}, {"High"}, {"IPv4"}, RingRun)
    \/ BcLock(GenThread)
    \/ BcAppend(GenThread)
    \/ BcSave(GenThread, {"ok"})
    \/ BcEmit(GenThread, {"ok"})
    \/ RouteStart(RouteThread, RingRun)
    \/ FetchCheck(RouteThread)
    \/ RealPick(RouteThread)
    \/ GeoCheck(RouteThread)
    \/ RealMake(RouteThread, {"SSH Brute Force"}, {"Critical"})
    \/ RouteAppend(RouteThread)
    \/ RouteSave(RouteThread, SinkResults)
    \/ RouteTrim(RouteThread)

Spec == Init /\ [][Next]_vars

\* ------------------------------------------------------------------------
\* SpecPool: the threat-intel pool under repeated calls of
\* fetch_real_threat_data while the clock advances
\* ------------------------------------------------------------------------
InitPool == Constructed([Off EXCEPT ![PoolThread] = "pool_idle"])

NextPool ==
    \/ RefreshCall(PoolThread)
    \/ FetchCheck(PoolThread)
    \/ FetchSource(PoolThread, HttpResults)
    \/ FetchCommit(PoolThread)
    \/ Tick(TickStep, MaxElapsed)

SpecPool == InitPool /\ [][NextPool]_vars

\* ------------------------------------------------------------------------
\* SpecGeo: the geolocation cache under prefetch_and_start and a generation loop
\* that draws intel-derived attacks, singly and in bursts, and one request to
\* /api/generate_attack, from a pool whose locations are not yet known
\* ------------------------------------------------------------------------
GeoPool == {"1.1.0.1", "2.2.0.1"}

InitGeo ==
    WarmedUp([Off EXCEPT ![GenThread] = "prefetch", ![RouteThread] = "route_idle"],
             GeoPool, {})

NextGeo ==
    \/ Prefetch(GenThread)
    \/ GenBurst(GenThread, {2}, MaxCreated)
    \/ BurstSleep(GenThread)
    \/ GenReal(GenThread, MaxCreated)
    \/ FetchCheck(GenThread)
    \/ RealPick(GenThread)
    \/ GeoCheck(GenThread)
    \/ GeoRemote(GenThread, GeoResults)
    \/ RealMake(GenThread, {"SSH Brute Force"}, {"High"})
    \/ BcLock(GenThread)
    \/ BcAppend(GenThread)
    \/ BcSave(GenThread, {"ok"})
    \/ BcEmit(GenThread, {"ok"})
    \/ RouteStart(RouteThread, MaxCreated)
    \/ FetchCheck(RouteThread)
    \/ RealPick(RouteThread)
    \/ GeoCheck(RouteThread)
    \/ GeoRemote(RouteThread, GeoResults)
    \/ RealMake(RouteThread, {"SSH Brute Force"}, {"High"})
    \/ RouteAppend(RouteThread)
    \/ RouteSave(RouteThread, {"ok"})
    \/ RouteTrim(RouteThread)

SpecGeo == InitGeo /\ [][NextGeo]_vars

\* ------------------------------------------------------------------------
\* SpecScore: score computations of the scoring loop while the generation
\* loop appends US attacks and the clock passes the length of the analysis window
\* ------------------------------------------------------------------------
InitScore ==
    Constructed([Off EXCEPT ![GenThread] = "loop", ![ScoreLoopThread] = "score_idle"])

NextScore ==
    \/ GenUs(GenThread, {"New York"}, {"HTTP Flood"}, {"Low", "Critical"}, {"IPv4"},
             MaxCreated)
    \/ BcLock(GenThread)
    \/ BcAppend(GenThread)
    \/ BcSave(GenThread, {"ok"})
    \/ BcEmit(GenThread, {"ok"})
    \/ ScoreBegin(ScoreLoopThread)
    \/ ScoreFilter(ScoreLoopThread)
    \/ ScoreFallback(ScoreLoopThread)
    \/ ScoreCompute(ScoreLoopThread)
    \/ ScoreAppend(ScoreLoopThread)
    \/ Tick(ANALYSIS_WINDOW_SECONDS, ANALYSIS_WINDOW_SECONDS)

SpecScore == InitScore /\ [][NextScore]_vars

\* ------------------------------------------------------------------------
\* SpecCalc: calculate_threat_score applied to buffers of every size up to
\* MaxAnalysed, of several severity mixes, type counts and target-country
\* counts, all inside the analysis window; the generation loop appends one more
\* attack, so that a thread scores a buffer and then the buffer one longer
\* ------------------------------------------------------------------------
\* destination countries the provider answers, and an address in each
Countries ==
    << "Germany", "France", "Brazil", "Japan", "India", "Canada",
       "Spain", "Italy", "Poland", "Kenya", "Chile", "Norway" >>

Hosts ==
    << "5.1.0.1", "5.2.0.1", "5.3.0.1", "5.4.0.1", "5.5.0.1", "5.6.0.1",
       "5.7.0.1", "5.8.0.1", "5.9.0.1", "5.10.0.1", "5.11.0.1", "5.12.0.1" >>

SourceHost == "6.1.0.1"

\* the location the provider answers for SourceHost and for Hosts[k]
SourceLocation == [name |-> "Vienna", country |-> "Austria"]
HostLocation(k) == [name |-> Countries[k], country |-> Countries[k]]

\* the i-th element of the endless repetition of s
Cycle(s, i) == s[((i - 1) % Len(s)) + 1]

\* severities of successive attacks, repeated as often as needed
SeverityMixes ==
    { << "Critical" >>, << "Low" >>, << "Critical", "High", "Medium", "Low" >>,
      << "High", "Low" >> }

\* << number of attack types, number of destination countries >> of a buffer
Shapes == { << 1, 1 >>, << 4, 5 >>, << 8, 12 >>, << 8, 1 >> }

\* the i-th attack of a run of create_real_attack (line 661-675) whose draws were
\* the severities of mix, shape[1] attack types and shape[2] destinations in turn
RealAttack(i, mix, shape) ==
    Attack(i, i, StartTime, SourceLocation, HostLocation(((i - 1) % shape[2]) + 1),
           attack_types[((i - 1) % shape[1]) + 1], Cycle(mix, i),
           SourceHost, Hosts[((i - 1) % shape[2]) + 1], "IPv4", TRUE)

Sample(n, mix, shape) == [i \in 1..n |-> RealAttack(i, mix, shape)]

\* the score history after calculate_threat_score ran on each of `lists` in turn
RECURSIVE HistoryOf(_)
HistoryOf(lists) ==
    IF lists = << >> THEN << >>
    ELSE LET before == HistoryOf(SubSeq(lists, 1, Len(lists) - 1))
         IN  DequeAppend(before, MAX_THREAT_HISTORY,
                         ScoreResult(lists[Len(lists)], before, StartTime))

\* the state at `time` after the generation loop appended the n < MAX_ATTACKS
\* attacks of `buffer` (GenReal ... BcEmit n times over) and score computations
\* left `history`
HoldingAt(buffer, history, pcs, time) ==
    /\ recent_attacks = buffer
    /\ deque_state = Len(buffer)
    /\ recent_attacks_lock = None
    /\ ip_cache = [ip \in {SourceHost} \cup { buffer[i].destination_ip : i \in 1..Len(buffer) }
                      |-> IF ip = SourceHost THEN SourceLocation
                          ELSE HostLocation(CHOOSE k \in 1..Len(Hosts) : Hosts[k] = ip)]
    /\ threat_ips_cache = {SourceHost} \cup { Hosts[k] : k \in 1..Len(Hosts) }
    /\ last_fetch_time = StartTime
    /\ threat_score_history = history
    /\ now = time
    /\ db = SetToBag(ToSet(buffer))
    /\ emitted = SetToBag(ToSet(buffer))
    /\ pc = pcs
    /\ loc = [t \in Threads |-> NoLocals]
    /\ uid_next = Len(buffer) + 1
    /\ created = [i \in 1..Len(buffer) |-> buffer[i].id]
    /\ appended = buffer
    /\ obs = [NoObs(DOMAIN ip_cache) EXCEPT !.scored = history]
    /\ sched = LoopLocals
    /\ ConfigUnset

Holding(buffer, history, pcs) == HoldingAt(buffer, history, pcs, StartTime)

InitCalc ==
    \E n \in 0..MaxAnalysed : \E mix \in SeverityMixes : \E shape \in Shapes :
        Holding(Sample(n, mix, shape), << >>,
                [Off EXCEPT ![GenThread] = "loop", ![ScoreLoopThread] = "score_idle"])

NextCalc ==
    \/ GenUs(GenThread, {"New York"}, {"HTTP Flood"}, {"High"}, {"IPv4"}, CalcRun)
    \/ BcLock(GenThread)
    \/ BcAppend(GenThread)
    \/ BcSave(GenThread, {"ok"})
    \/ BcEmit(GenThread, {"ok"})
    \/ ScoreBegin(ScoreLoopThread)
    \/ ScoreFilter(ScoreLoopThread)
    \/ ScoreCompute(ScoreLoopThread)
    \/ ScoreAppend(ScoreLoopThread)

SpecCalc == InitCalc /\ [][NextCalc]_vars

\* ------------------------------------------------------------------------
\* SpecTrend: calculate_threat_score applied to a buffer when the history
\* already holds up to MaxHistory records, all computed from one buffer
\* content except for one record computed from another
\* ------------------------------------------------------------------------
\* << size, severity mix, shape >> of the buffers scored: their scores are
\* 39, 40, 50, 60, 61, 65 and 70
TrendSamples ==
    { << 4, << "Critical" >>, << 4, 5 >> >>,
      << 3, << "Critical" >>, << 8, 1 >> >>,
      << 9, << "Critical", "High", "Medium", "Low" >>, << 4, 5 >> >>,
      << 10, << "Critical", "High", "Medium", "Low" >>, << 1, 1 >> >>,
      << 12, << "Critical", "High", "Medium", "Low" >>, << 4, 5 >> >>,
      << 8, << "Critical" >>, << 4, 5 >> >>,
      << 9, << "Critical" >>, << 1, 1 >> >> }

SampleOf(p) == Sample(p[1], p[2], p[3])

InitTrend ==
    \E len \in 0..MaxHistory : \E odd \in 0..len :
    \E base \in TrendSamples : \E other \in TrendSamples : \E buffer \in TrendSamples :
        Holding(SampleOf(buffer),
                HistoryOf([i \in 1..len |-> SampleOf(IF i = odd THEN other ELSE base)]),
                [Off EXCEPT ![ScoreLoopThread] = "score_idle"])

NextTrend ==
    \/ ScoreBegin(ScoreLoopThread)
    \/ ScoreFilter(ScoreLoopThread)
    \/ ScoreCompute(ScoreLoopThread)
    \/ ScoreAppend(ScoreLoopThread)

SpecTrend == InitTrend /\ [][NextTrend]_vars

\* ------------------------------------------------------------------------
\* SpecFactors: the two score computations and the per-country scores applied
\* to buffers like those of SpecCalc, all inside the analysis windows; the
\* service is given the buffer as it is, without any destination, and with every
\* second destination missing
\* ------------------------------------------------------------------------
WithoutDestination(a) == [k \in DOMAIN a \ {"destination"} |-> a[k]]

\* the argument lists of ThreatScoringService.calculate_score made of `buffer`
Variants(buffer) ==
    { buffer,
      [i \in 1..Len(buffer) |-> WithoutDestination(buffer[i])],
      [i \in 1..Len(buffer) |-> IF i % 2 = 0 THEN WithoutDestination(buffer[i])
                                 ELSE buffer[i]] }

InitFactors ==
    \E n \in 0..MaxListed : \E mix \in SeverityMixes : \E shape \in Shapes :
        Holding(Sample(n, mix, shape), << >>,
                [Off EXCEPT ![ScoreLoopThread] = "score_idle",
                            ![ServiceThread] = "svc_idle",
                            ![CountryReqThread] = "country_idle"])

NextFactors ==
    \/ ScoreBegin(ScoreLoopThread)
    \/ ScoreFilter(ScoreLoopThread)
    \/ ScoreCompute(ScoreLoopThread)
    \/ ScoreAppend(ScoreLoopThread)
    \/ ServiceCall(ServiceThread, Variants(recent_attacks), {threat_score_history})
    \/ ServiceDone(ServiceThread)
    \/ CountryBegin(CountryReqThread)
    \/ CountryFilter(CountryReqThread)
    \/ CountryCompute(CountryReqThread)
    \/ CountryDone(CountryReqThread)

SpecFactors == InitFactors /\ [][NextFactors]_vars

\* ------------------------------------------------------------------------
\* SpecHist: the score history under the scoring loop and a request to
\* /api/threat/score at once, from an empty history and from one about to
\* overflow, while the clock advances
\* ------------------------------------------------------------------------
\* the buffer scored
HistBuffer == Sample(3, << "Critical", "High", "Medium", "Low" >>, << 4, 5 >>)

\* the history after k computations over HistBuffer, one a second from StartTime
HistoryAfter(k) ==
    [i \in 1..k |-> ScoreResult(HistBuffer, << >>, StartTime + i - 1)]

HistStarts == {0, MAX_THREAT_HISTORY - 1}

InitHist ==
    \E k \in HistStarts :
        HoldingAt(HistBuffer, HistoryAfter(k),
                  [Off EXCEPT ![ScoreLoopThread] = "score_idle",
                              ![ScoreReqThread] = "score_idle"],
                  StartTime + k)

NextHist ==
    \/ ScoreBegin(ScoreLoopThread)
    \/ ScoreFilter(ScoreLoopThread)
    \/ ScoreCompute(ScoreLoopThread)
    \/ ScoreAppend(ScoreLoopThread)
    \/ ScoreBegin(ScoreReqThread)
    \/ ScoreFilter(ScoreReqThread)
    \/ ScoreCompute(ScoreReqThread)
    \/ ScoreAppend(ScoreReqThread)
    \/ Tick(TickStep, MaxElapsed)

SpecHist == InitHist /\ [][NextHist]_vars

\* ------------------------------------------------------------------------
\* SpecFan: the generation loop handing attacks to _broadcast_attack while the
\* storage save and the subscriber broadcast succeed or fail
\* ------------------------------------------------------------------------
InitFan == Constructed([Off EXCEPT ![GenThread] = "loop"])

NextFan ==
    \/ GenUs(GenThread, US_CITIES, {"HTTP Flood"}, {"High"}, {"IPv4"}, MaxCreated)
    \/ BcLock(GenThread)
    \/ BcAppend(GenThread)
    \/ BcSave(GenThread, SinkResults)
    \/ BcEmit(GenThread, SinkResults)

SpecFan == InitFan /\ [][NextFan]_vars

\* ------------------------------------------------------------------------
\* SpecLive: the generation loop and the scoring loop, each scheduled again and
\* again, while geolocation lookups and broadcasts raise or succeed and score
\* computations meet appends
\* ------------------------------------------------------------------------
LiveRun == 2

\* the pool is filled; the location of one of its addresses is cached already,
\* that of the other is still to be looked up
InitLive ==
    WarmedUp([Off EXCEPT ![GenThread] = "loop", ![ScoreLoopThread] = "score_idle"],
             GeoPool, {"1.1.0.1"})

\* generate_attacks_background (1175-1199): the steps of the generation thread
GenLoopStep ==
    \/ GenReal(GenThread, LiveRun)
    \/ FetchCheck(GenThread)
    \/ RealPick(GenThread)
    \/ GeoCheck(GenThread)
    \/ GeoRemote(GenThread, {"success", "exception"})
    \/ RealMake(GenThread, {"SSH Brute Force"}, {"High"})
    \/ BcLock(GenThread)
    \/ BcAppend(GenThread)
    \/ BcSave(GenThread, {"ok"})
    \/ BcEmit(GenThread, SinkResults)

\* update_threat_scores_background (1163-1172): the steps of the scoring thread
ScoreLoopStep ==
    \/ ScoreBegin(ScoreLoopThread)
    \/ ScoreFilter(ScoreLoopThread)
    \/ ScoreCompute(ScoreLoopThread)
    \/ ScoreAppend(ScoreLoopThread)

NextLive == GenLoopStep \/ ScoreLoopStep

\* both are daemon threads of one process: each is scheduled as long as it has
\* a step to take, and its sleeps (1171, 1199) end
SpecLive ==
    InitLive /\ [][NextLive]_vars /\ WF_vars(GenLoopStep) /\ WF_vars(ScoreLoopStep)

\* ------------------------------------------------------------------------
\* SpecConf: Config objects made from a configuration file that is absent,
\* empty, not YAML or a YAML document, and read with Config.get while variables
\* of the environment are set and unset
\* ------------------------------------------------------------------------
MaxObjects == 1
MaxEnv == 1

\* key paths: three the defaults hold, three nothing holds
app_debug == << "a", "p", "p", ".", "d", "e", "b", "u", "g" >>
app_port == << "a", "p", "p", ".", "p", "o", "r", "t" >>
max_attacks == << "a", "t", "t", "a", "c", "k", "_", "t", "r", "a", "c", "k", "i", "n", "g", ".", "m", "a", "x", "_", "a", "t", "t", "a", "c", "k", "s" >>
nonexistent_key == << "n", "o", "n", "e", "x", "i", "s", "t", "e", "n", "t", ".", "k", "e", "y" >>
app_port_number == << "a", "p", "p", ".", "p", "o", "r", "t", ".", "n", "u", "m", "b", "e", "r" >>
test_value == << "t", "e", "s", "t", ".", "v", "a", "l", "u", "e" >>
KeyPaths == {app_debug, app_port, max_attacks, nonexistent_key, app_port_number, test_value}

default_value == StrV(<< "d", "e", "f", "a", "u", "l", "t", "_", "v", "a", "l", "u", "e" >>)
Defaults == {NoneV, default_value}

\* the document of tests/test_config.py, lines 112-115
PortDocument(port) == DictV(<< "a", "p", "p" >> :> DictV(<< "p", "o", "r", "t" >> :> IntV(port)))

\* the variables of the environment that are set in this specification
ENV_APP_PORT == << "D", "D", "O", "S", "_", "C", "O", "N", "F", "I", "G", "_", "A", "P", "P", "_", "P", "O", "R", "T" >>
ENV_TEST_VALUE == << "D", "D", "O", "S", "_", "C", "O", "N", "F", "I", "G", "_", "T", "E", "S", "T", "_", "V", "A", "L", "U", "E" >>
EnvNames == {ENV_APP_PORT, ENV_TEST_VALUE}
EnvValues ==
    { << "t", "r", "u", "e" >>, << "F", "a", "l", "s", "e" >>, << "4", "2" >>, << "-", "7" >>, << "3", ".", "1", "4" >>, << "1", "e", "3" >>, << "h", "e", "l", "l", "o" >>, << >> }

InitConf ==
    /\ ConstructedApp(Off)
    /\ \E c \in {AbsentFile, EmptyFile, InvalidFile, YamlFile(PortDocument(3000))} :
           files = [p \in Paths |-> IF p = DEFAULT_CONFIG_PATH THEN c ELSE AbsentFile]
    /\ environ = << >>
    /\ _config = None
    /\ configs = << >>
    /\ ret = NoRet

NextConf ==
    \/ ConfigInit(DEFAULT_CONFIG_PATH, MaxObjects)
    \/ \E self \in 1..MaxObjects : \E k \in KeyPaths : \E d \in Defaults :
           ConfigGet(self, k, d)
    \/ SetEnv({ENV_APP_PORT}, EnvValues, MaxEnv)
    \/ SetEnv({ENV_TEST_VALUE}, {<< "h", "e", "l", "l", "o" >>}, MaxEnv)
    \/ DelEnv(EnvNames)

SpecConf == InitConf /\ [][NextConf]_vars

\* ------------------------------------------------------------------------
\* The global instance: get_config and reload_config called in any order and
\* with any path, while the files are rewritten between the calls
\* ------------------------------------------------------------------------
MaxConfigs == 2

FileContents == {AbsentFile, YamlFile(PortDocument(3000)), YamlFile(PortDocument(4000))}

InitSingleton == Constructed(Off)

NextSingleton ==
    \/ \E path \in Paths : get_config(path, MaxConfigs)
    \/ \E path \in Paths : reload_config(path, MaxConfigs)
    \/ \E path \in Paths : WriteFile(path, FileContents)
    \/ \E self \in 1..MaxConfigs : ConfigGet(self, app_port, NoneV)

SpecSingleton == InitSingleton /\ [][NextSingleton]_vars

\* ------------------------------------------------------------------------
\* SpecLocks: the generation thread (prefetch, then intel-derived attacks) from
\* an empty pool and an empty geolocation cache, so that it fetches the lists,
\* looks locations up, saves and broadcasts, each with its failures
\* ------------------------------------------------------------------------
LockRun == 1

InitLocks == Constructed([Off EXCEPT ![GenThread] = "prefetch"])

NextLocks ==
    \/ Prefetch(GenThread)
    \/ GenReal(GenThread, LockRun)
    \/ FetchCheck(GenThread)
    \/ FetchSource(GenThread, {"ok", "exception"})
    \/ FetchCommit(GenThread)
    \/ RealPick(GenThread)
    \/ GeoCheck(GenThread)
    \/ GeoRemote(GenThread, {"success", "exception"})
    \/ RealMake(GenThread, {"SSH Brute Force"}, {"High"})
    \/ BcLock(GenThread)
    \/ BcAppend(GenThread)
    \/ BcSave(GenThread, SinkResults)
    \/ BcEmit(GenThread, SinkResults)

SpecLocks == InitLocks /\ [][NextLocks]_vars

\* ------------------------------------------------------------------------
\* SpecWindow: score computations, by calculate_threat_score and by the service,
\* over buffers of up to MaxAged attacks of which the newest `fresh` were made
\* one analysis window after the others, at clocks that put all, some or none
\* of them inside the window, while the generation loop appends one more
\* ------------------------------------------------------------------------
MaxAged == 11

AgedSizes == {1, MaxAged - 1, MaxAged}

\* seconds between the oldest attack of the buffer and the call
Ages == {ANALYSIS_WINDOW_SECONDS - 1, ANALYSIS_WINDOW_SECONDS, 2 * ANALYSIS_WINDOW_SECONDS}

AgedBuffer(n, fresh) ==
    [i \in 1..n |->
        [RealAttack(i, << "High", "Low" >>, << 4, 5 >>) EXCEPT
            !.timestamp = IF i > n - fresh THEN StartTime + ANALYSIS_WINDOW_SECONDS
                          ELSE StartTime]]

InitWindow ==
    \E n \in AgedSizes : \E fresh \in {0, 1, n} : \E age \in Ages :
        HoldingAt(AgedBuffer(n, fresh), << >>,
                  [Off EXCEPT ![GenThread] = "loop", ![ScoreLoopThread] = "score_idle",
                              ![ServiceThread] = "svc_idle"],
                  StartTime + age)

NextWindow ==
    \/ GenUs(GenThread, {"New York"}, {"HTTP Flood"}, {"High"}, {"IPv4"}, CalcRun)
    \/ BcLock(GenThread)
    \/ BcAppend(GenThread)
    \/ BcSave(GenThread, {"ok"})
    \/ BcEmit(GenThread, {"ok"})
    \/ ScoreBegin(ScoreLoopThread)
    \/ ScoreFilter(ScoreLoopThread)
    \/ ScoreFallback(ScoreLoopThread)
    \/ ScoreCompute(ScoreLoopThread)
    \/ ScoreAppend(ScoreLoopThread)
    \/ ServiceCall(ServiceThread, {recent_attacks}, {threat_score_history})
    \/ ServiceDone(ServiceThread)

SpecWindow == InitWindow /\ [][NextWindow]_vars

\* ------------------------------------------------------------------------
\* SpecBoth: calculate_threat_score and ThreatScoringService.calculate_score
\* given the application's buffer and history, the buffer empty or one of the
\* samples of SpecTrend, inside the window, on its edge and outside it, the
\* history empty or long enough for a trend
\* ------------------------------------------------------------------------
BothSamples == TrendSamples \cup { << 0, << "Low" >>, << 1, 1 >> >> }

InitBoth ==
    \E buffer \in BothSamples : \E base \in TrendSamples :
    \E len \in {0, 4, 5} : \E age \in Ages :
        HoldingAt(SampleOf(buffer), HistoryOf([i \in 1..len |-> SampleOf(base)]),
                  [Off EXCEPT ![ScoreLoopThread] = "score_idle",
                              ![ServiceThread] = "svc_idle"],
                  StartTime + age)

NextBoth ==
    \/ ScoreBegin(ScoreLoopThread)
    \/ ScoreFilter(ScoreLoopThread)
    \/ ScoreFallback(ScoreLoopThread)
    \/ ScoreCompute(ScoreLoopThread)
    \/ ScoreAppend(ScoreLoopThread)
    \/ ServiceCall(ServiceThread, {recent_attacks}, {threat_score_history})
    \/ ServiceDone(ServiceThread)

SpecBoth == InitBoth /\ [][NextBoth]_vars

\* ------------------------------------------------------------------------
\* SpecSched: the pace of the generation loop over any number of iterations,
\* the draws being the ends and some inner points of their ranges
\* ------------------------------------------------------------------------
TrendSteps == {-15, -10, 0, 10, 15}
SleepVariations == {-80, -30, 0, 30, 80}

InitSched == Constructed([Off EXCEPT ![GenThread] = "loop"])

NextSched == SchedIterate(GenThread, TrendSteps, SleepVariations)

SpecSched == InitSched /\ [][NextSched]_vars

\* ------------------------------------------------------------------------
\* SpecBurst: bursts of the generation loop from a warm pool whose locations
\* are not all known, the provider answering or failing
\* ------------------------------------------------------------------------
BurstRun == 4

\* random.randint(2, 4), line 1188
BurstCounts == 2..4

InitBurst == WarmedUp([Off EXCEPT ![GenThread] = "loop"], GeoPool, {"1.1.0.1"})

NextBurst ==
    \/ GenBurst(GenThread, BurstCounts, BurstRun)
    \/ BurstSleep(GenThread)
    \/ FetchCheck(GenThread)
    \/ RealPick(GenThread)
    \/ GeoCheck(GenThread)
    \/ GeoRemote(GenThread, {"success", "exception"})
    \/ RealMake(GenThread, {"SSH Brute Force"}, {"High"})
    \/ BcLock(GenThread)
    \/ BcAppend(GenThread)
    \/ BcSave(GenThread, {"ok"})
    \/ BcEmit(GenThread, {"ok"})

SpecBurst == InitBurst /\ [][NextBurst]_vars

\* ------------------------------------------------------------------------
\* Properties of the ring buffer (Spec)
\* ------------------------------------------------------------------------
\* C1: whatever the appends so far and however the generation loop and the route
\* interleaved, the ring buffer holds at most MAX_ATTACKS records.
C1_LengthBounded == Len(recent_attacks) <= MAX_ATTACKS

\* an append was made to a full buffer
C1_Witness == Len(recent_attacks) = MAX_ATTACKS /\ Len(appended) > MAX_ATTACKS

\* C2: after k appends the buffer holds, oldest first, exactly the last
\* min(k, MAX_ATTACKS) records appended, in the order they were appended.
C2_LastAppendsInOrder == recent_attacks = LastN(appended, MAX_ATTACKS)

\* the buffer has overflowed and holds records of both the loop and the route
C2_Witness ==
    /\ Len(appended) > MAX_ATTACKS
    /\ \E i \in 1..Len(recent_attacks) : recent_attacks[i].real_data
    /\ \E i \in 1..Len(recent_attacks) : ~ recent_attacks[i].real_data

\* C3: of any two attacks created, the one created later has the larger id.
C3_IdsStrictlyIncrease ==
    \A i \in 1..(Len(created) - 1) : created[i] < created[i + 1]

\* ------------------------------------------------------------------------
\* Properties of the threat-intel pool (SpecPool)
\* ------------------------------------------------------------------------
\* a call of fetch_real_threat_data by t has just returned after committing
Committed(t) == pc[t] = AfterFetch(t) /\ loc[t].status = "committed"

\* the IPs a source lists
ListedBy(i) == { ip \in IPs : \E j \in 1..Len(Body(sources[i])) : Body(sources[i])[j] = ip }

\* C4: a refresh in which every source failed leaves the pool it found.
C4_AllFailedKeepsPool ==
    \A t \in Threads :
        (Committed(t) /\ loc[t].ok_sources = {})
            => threat_ips_cache = loc[t].pool_before

\* C5: a call made less than CACHE_DURATION seconds after the call of a refresh
\* that committed IPs returns that very pool, fetches from no source, and
\* leaves the pool and the last-refresh time as they were.
C5_FreshCallFetchesNothing ==
    [][\A t \in Threads :
          ( /\ pc[t] = "fetch_check"
            /\ pc'[t] # "fetch_check"
            /\ ~ IsNone(obs.last_good)
            /\ now - Val(obs.last_good).time < CACHE_DURATION )
          => ( /\ pc'[t] = AfterFetch(t)
               /\ loc'[t].threat_ips = Val(obs.last_good).pool
               /\ loc'[t].fetched = 0
               /\ threat_ips_cache' = threat_ips_cache
               /\ last_fetch_time' = last_fetch_time )]_vars

\* a second call, made later than the refresh before it, has returned the pool
\* without fetching
C5_Witness ==
    \E t \in Threads :
        /\ pc[t] = AfterFetch(t)
        /\ loc[t].status = "fresh"
        /\ loc[t].current_time > last_fetch_time
        /\ loc[t].threat_ips # {}

\* C6: a refresh in which some sources failed and some answered has asked every
\* source and commits exactly the set of IPs listed by the sources that answered.
C6_PartialFailureCommitsUnion ==
    \A t \in Threads :
        (Committed(t) /\ loc[t].ok_sources # {} /\ loc[t].ok_sources # 1..Len(sources))
            => /\ loc[t].fetched = Len(sources)
               /\ threat_ips_cache = UNION { ListedBy(i) : i \in loc[t].ok_sources }

\* a source failed before another answered, and an IP listed twice is held once
C6_Witness ==
    \E t \in Threads :
        /\ Committed(t)
        /\ 1 \notin loc[t].ok_sources
        /\ {2, 5} \subseteq loc[t].ok_sources
        /\ Len(loc[t].all_ips) > Cardinality(threat_ips_cache)
        /\ threat_ips_cache = {"1.1.0.2", "2.2.0.1"}

\* ------------------------------------------------------------------------
\* Properties of the geolocation cache (SpecGeo)
\* ------------------------------------------------------------------------
\* thread t takes a step
Steps(t) == pc'[t] # pc[t] \/ loc'[t] # loc[t]

\* what the lookup that t has just finished returned to create_real_attack
Returned(t) == IF loc[t].which = "src" THEN loc'[t].origin ELSE loc'[t].destination

\* C7: a lookup of an IP that is in the cache returns the cached location, and
\* neither waits for the rate limit nor calls the provider.
C7_CachedLookupStaysLocal ==
    [][\A t \in Threads :
          (pc[t] = "geo_check" /\ Steps(t) /\ LookupIp(t) \in DOMAIN ip_cache)
          => ( /\ pc'[t] # "geo_remote"
               /\ Returned(t) = Some(ip_cache[LookupIp(t)])
               /\ loc'[t].geo_calls = 0
               /\ ip_cache' = ip_cache )]_vars

\* the lookup of the source IP was answered from the cache, filled by an
\* earlier remote lookup
C7_Witness ==
    \E t \in Threads :
        /\ pc[t] = "geo_check"
        /\ loc[t].which = "dst"
        /\ loc[t].geo_calls = 0
        /\ loc[t].origin = Some(GeoDB[loc[t].source_ip])
        /\ loc[t].source_ip \in obs.geo_ok

\* C8: the cache holds an IP only if a remote lookup of it succeeded (so a failed
\* lookup caches nothing), no entry is ever removed or altered, and a lookup of
\* an IP that is not in the cache calls the provider.
C8_CacheHoldsSuccessesOnly ==
    /\ [](DOMAIN ip_cache \subseteq obs.geo_ok)
    /\ [][ /\ \A ip \in DOMAIN ip_cache :
                ip \in DOMAIN ip_cache' /\ ip_cache'[ip] = ip_cache[ip]
           /\ \A t \in Threads :
                (pc[t] = "geo_check" /\ Steps(t) /\ LookupIp(t) \notin DOMAIN ip_cache)
                => pc'[t] = "geo_remote" ]_vars

\* a lookup failed earlier, and the provider is being asked for the same IP again
C8_Witness ==
    \E t \in Threads :
        /\ pc[t] = "geo_remote"
        /\ LookupIp(t) \in obs.geo_failed
        /\ LookupIp(t) \notin DOMAIN ip_cache
        /\ DOMAIN ip_cache # {}

\* ------------------------------------------------------------------------
\* Properties of the score computation (SpecScore)
\* ------------------------------------------------------------------------
\* o is a returned score record with score 0, level Low, trend stable and
\* the four factors 0
IsZeroScore(o) ==
    /\ ~ IsNone(o)
    /\ Val(o).score = 0
    /\ Val(o).level = "Low"
    /\ Val(o).trend = "stable"
    /\ Val(o).factors.frequency = 0
    /\ Val(o).factors.severity = 0
    /\ Val(o).factors.diversity = 0
    /\ Val(o).factors.concentration = 0

\* calculate_threat_score, called by t, has returned or been left by an exception
ScoreEnded(t) == pc[t] = "score_idle" /\ loc[t].status # ""

\* C9: a score computation that finds the ring buffer empty returns score 0,
\* level Low, trend stable and all four factors 0.
C9_EmptyBufferZeroScore ==
    \A t \in Threads :
        (ScoreEnded(t) /\ loc[t].buf_at_call = << >>) => IsZeroScore(loc[t].result)

\* such a computation has returned
C9_Witness ==
    \E t \in Threads :
        /\ ScoreEnded(t)
        /\ loc[t].buf_at_call = << >>
        /\ loc[t].status = "empty"
        /\ IsZeroScore(loc[t].result)

\* C10: a score computation in which an exception was raised still returns to
\* its caller, and what it returns is the zero score record.
C10_ExceptionYieldsZeroScore ==
    \A t \in Threads :
        loc[t].raised
            => /\ ScoreEnded(t)
               /\ loc[t].status # "crashed"
               /\ IsZeroScore(loc[t].result)

\* the iteration over a non-empty buffer was broken by a concurrent append
C10_Witness ==
    \E t \in Threads :
        /\ loc[t].raised
        /\ loc[t].buf_at_call # << >>
        /\ Len(recent_attacks) > Len(loc[t].buf_at_call)
        /\ IsZeroScore(loc[t].result)

\* ------------------------------------------------------------------------
\* Properties of the score arithmetic (SpecCalc)
\* ------------------------------------------------------------------------
\* calculate_threat_score, called by t, has built its result from the analysed
\* attacks loc[t].recent_attack_list
Computed(t) == loc[t].status \in {"computed", "returned"} /\ ~ IsNone(loc[t].result)

\* the sum of the four unrounded factors of the attacks analysed by t, as a
\* numerator over 10 * Len(loc[t].recent_attack_list); frequency, severity and
\* diversity are multiples of 0.5 and so are reported exactly
FactorSum(t) ==
    LET f == Val(loc[t].result).factors
    IN  Len(loc[t].recent_attack_list) * (f.frequency + f.severity + f.diversity)
            + 10 * ConcentrationNum(loc[t].recent_attack_list)

\* the score of r is an integer of 0..100 and its reported factors (tenths) are
\* within their caps and within rounding of the score
WithinBounds(r) ==
    LET f == r.factors
        reported == f.frequency + f.severity + f.diversity + f.concentration
    IN  /\ r.score \in 0..100
        /\ f.frequency \in 0..300
        /\ f.severity \in 0..400
        /\ f.diversity \in 0..150
        /\ f.concentration \in 0..150
        /\ 10 * r.score <= reported
        /\ reported <= 10 * r.score + 10

\* C11: every score record returned or stored in the history has an integer
\* score in 0..100 that is min(100, floor(sum of the four unrounded factors)),
\* with frequency <= 30, severity <= 40, diversity <= 15, concentration <= 15.
C11_ScoreIsFlooredSum ==
    /\ \A i \in 1..Len(threat_score_history) : WithinBounds(threat_score_history[i])
    /\ \A t \in Threads :
         /\ ~ IsNone(loc[t].result) => WithinBounds(Val(loc[t].result))
         /\ Computed(t) =>
              LET den == 10 * Len(loc[t].recent_attack_list)
                  score == Val(loc[t].result).score
              IN  /\ ConcentrationNum(loc[t].recent_attack_list)
                         <= 15 * Len(loc[t].recent_attack_list)
                  /\ IF FactorSum(t) >= 100 * den THEN score = 100
                     ELSE score * den <= FactorSum(t) /\ FactorSum(t) < (score + 1) * den

\* a stored result whose factor sum has a fractional part of a half or more
C11_Witness ==
    \E t \in Threads :
        /\ Computed(t)
        /\ loc[t].status = "returned"
        /\ threat_score_history # << >>
        /\ LET den == 10 * Len(loc[t].recent_attack_list)
           IN  2 * (FactorSum(t) % den) >= den

\* the level of r is the one its score alone determines
LevelFitsScore(r) ==
    /\ r.level \in {"Critical", "High", "Medium", "Low"}
    /\ r.level = "Critical" <=> r.score >= 80
    /\ r.level = "High" <=> (60 <= r.score /\ r.score < 80)
    /\ r.level = "Medium" <=> (35 <= r.score /\ r.score < 60)
    /\ r.level = "Low" <=> r.score < 35

\* C12: the level of every score record, returned or stored, is Critical iff
\* score >= 80, High iff 60 <= score < 80, Medium iff 35 <= score < 60, Low iff
\* score < 35.
C12_LevelFollowsScore ==
    /\ \A i \in 1..Len(threat_score_history) : LevelFitsScore(threat_score_history[i])
    /\ \A t \in Threads : ~ IsNone(loc[t].result) => LevelFitsScore(Val(loc[t].result))

\* a record with a score on the Critical threshold was stored after one with a
\* score just below it
C12_Witness ==
    /\ Len(threat_score_history) = 2
    /\ threat_score_history[1].score = 79 /\ threat_score_history[1].level = "High"
    /\ threat_score_history[2].score = 80 /\ threat_score_history[2].level = "Critical"

\* C15: the frequency factor is 1.5 per analysed attack while that is below 30
\* and exactly 30 from then on, so that it never decreases from a computation
\* over n attacks to the next one over n + 1 or more.
C15_FrequencyMonotone ==
    \A t \in Threads :
        Computed(t) =>
            LET n == Len(loc[t].recent_attack_list)
                frequency == Val(loc[t].result).factors.frequency
            IN  /\ 15 * n < 300 => frequency = 15 * n
                /\ 15 * n >= 300 => frequency = 300
                /\ (~ IsNone(loc[t].prev_result) /\ Len(loc[t].prev_list) <= n)
                       => Val(loc[t].prev_result).factors.frequency <= frequency

\* a thread scored 20 attacks and then 21: the factor stayed at the cap
C15_Witness ==
    \E t \in Threads :
        /\ Computed(t)
        /\ Len(loc[t].prev_list) = 20
        /\ Len(loc[t].recent_attack_list) = 21
        /\ Val(loc[t].prev_result).factors.frequency = 300
        /\ Val(loc[t].result).factors.frequency = 300

\* ------------------------------------------------------------------------
\* Properties of the factors and of the per-country scores (SpecFactors)
\* ------------------------------------------------------------------------
\* t holds a result that calculate_threat_score or calculate_score built from
\* the analysed attacks loc[t].recent_attack_list
Scored(t) ==
    \/ Computed(t)
    \/ (loc[t].status = "svc_returned" /\ loc[t].recent_attack_list # << >>)

\* the number of attacks of severity sev in list
CountOf(list, sev) == Cardinality({ i \in 1..Len(list) : list[i].severity = sev })

\* C16: the severity factor is min(40, (sum of weights) / 2) with weights
\* Critical 10, High 6, Medium 3, Low 1; for 10 attacks all Critical it is 40.
C16_SeverityFactor ==
    \A t \in Threads :
        Scored(t) =>
            LET list == loc[t].recent_attack_list
                weights == 10 * CountOf(list, "Critical") + 6 * CountOf(list, "High")
                               + 3 * CountOf(list, "Medium") + CountOf(list, "Low")
                severity == Val(loc[t].result).factors.severity
            IN  /\ severity = IF 5 * weights <= 400 THEN 5 * weights ELSE 400
                /\ (Len(list) = 10 /\ CountOf(list, "Critical") = 10) => severity = 400

\* calculate_threat_score has scored 10 attacks, all Critical
C16_Witness ==
    \E t \in Threads :
        /\ Computed(t)
        /\ Len(loc[t].recent_attack_list) = 10
        /\ CountOf(loc[t].recent_attack_list, "Critical") = 10
        /\ Val(loc[t].result).factors.severity = 400

\* the positions of the attacks of list that have a destination
Targeted(list) == { i \in 1..Len(list) : "destination" \in DOMAIN list[i] }

\* how many attacks of list target country c
TargetCount(list, c) ==
    Cardinality({ i \in Targeted(list) : list[i].destination.country = c })

\* n is the count of the most frequent destination country of list
IsTopCount(list, n) ==
    /\ \E i \in Targeted(list) : TargetCount(list, list[i].destination.country) = n
    /\ \A i \in Targeted(list) : TargetCount(list, list[i].destination.country) <= n

\* C17: the concentration factor is min(15, 20 * top / targeted), top being the
\* count of the most frequent destination country and targeted the number of
\* attacks with a destination (reported to one decimal place), and 0 when no
\* attack has a destination; 10 attacks on one country give 15 and attacks split
\* evenly over 5 countries give 4.0.
C17_ConcentrationFactor ==
    \A t \in Threads :
        Scored(t) =>
            LET list == loc[t].recent_attack_list
                targeted == Cardinality(Targeted(list))
                concentration == Val(loc[t].result).factors.concentration
            IN  IF targeted = 0 THEN concentration = 0
                ELSE \A top \in 1..targeted :
                        IsTopCount(list, top) =>
                            LET exact == IF 20 * top <= 15 * targeted
                                         THEN 200 * top ELSE 150 * targeted
                            IN  /\ 2 * (concentration * targeted - exact) <= targeted
                                /\ 2 * (exact - concentration * targeted) <= targeted
                                /\ top = targeted => concentration = 150
                                /\ (5 * top = targeted
                                    /\ Cardinality({ list[i].destination.country :
                                                         i \in Targeted(list) }) = 5)
                                       => concentration = 40

\* calculate_score was given attacks none of which has a destination
C17_Witness ==
    \E t \in Threads :
        /\ loc[t].status = "svc_returned"
        /\ Len(loc[t].recent_attack_list) = 10
        /\ Targeted(loc[t].recent_attack_list) = {}
        /\ Val(loc[t].result).factors.concentration = 0
        /\ Val(loc[t].result).score > 0

\* the position in list of the first attack that targets country c
FirstSeen(list, c) ==
    CHOOSE i \in Targeted(list) :
        /\ list[i].destination.country = c
        /\ \A j \in Targeted(list) : list[j].destination.country = c => i <= j

\* C19: the list calculate_country_threat_scores returns has at most 10
\* entries in non-increasing order of score, and entries of equal score are in
\* the order in which their countries were first met.
C19_CountryScoresSorted ==
    \A t \in Threads :
        pc[t] = "country_called" =>
            LET scores == loc[t].country_scores
                list == loc[t].recent_attack_list
            IN  /\ Len(scores) <= 10
                /\ \A i \in 1..Len(scores) : \A j \in 1..Len(scores) :
                       i < j =>
                           /\ scores[i].score >= scores[j].score
                           /\ scores[i].score = scores[j].score
                                  => FirstSeen(list, scores[i].country)
                                         < FirstSeen(list, scores[j].country)

\* more than 10 countries were scored, 10 of them returned, two with one score
C19_Witness ==
    \E t \in Threads :
        /\ pc[t] = "country_called"
        /\ loc[t].status = "country_returned"
        /\ Len(loc[t].country_scores) = 10
        /\ Cardinality({ loc[t].recent_attack_list[i].destination.country :
                             i \in 1..Len(loc[t].recent_attack_list) }) > 10
        /\ \E i \in 1..9 : loc[t].country_scores[i].score = loc[t].country_scores[i + 1].score
        /\ \E i \in 1..9 : loc[t].country_scores[i].score > loc[t].country_scores[i + 1].score

\* ------------------------------------------------------------------------
\* Properties of the score history (SpecHist)
\* ------------------------------------------------------------------------
\* C18: whatever the scoring loop and the request handlers do at once, the
\* history never holds more than MAX_THREAT_HISTORY records, and it is exactly
\* the most recent records appended, unchanged and in the order they were
\* appended: only the oldest ones are gone
C18_HistoryKeepsNewest ==
    /\ Len(threat_score_history) <= MAX_THREAT_HISTORY
    /\ threat_score_history = LastN(obs.scored, MAX_THREAT_HISTORY)

\* the loop and a request both appended to a full history: the oldest record
\* was evicted, and the two newest records differ from each other
C18_Witness ==
    /\ Len(obs.scored) = MAX_THREAT_HISTORY + 1
    /\ Len(threat_score_history) = MAX_THREAT_HISTORY
    /\ loc[ScoreLoopThread].status = "returned"
    /\ loc[ScoreReqThread].status = "returned"
    /\ threat_score_history[MAX_THREAT_HISTORY]
           # threat_score_history[MAX_THREAT_HISTORY - 1]
    /\ threat_score_history[1] # obs.scored[1]

\* ------------------------------------------------------------------------
\* Properties of the fan-out (SpecFan)
\* ------------------------------------------------------------------------
\* how often `attack` was appended to the ring buffer
TimesAppended(attack) == Cardinality({i \in 1..Len(appended) : appended[i] = attack})

\* what a sink holds of `attack` after an attempt with result r
Delivered(r) == IF r = "ok" THEN 1 ELSE 0

\* C20: in the fan-out of an attack the save and the broadcast are both
\* attempted whatever the other's result, the attack is appended exactly once
\* and stays appended when either fails, each sink receives it once if its
\* attempt succeeded and never otherwise, no sink ever holds an attack twice or
\* an attack that was not appended, and the fan-out returns to the generation
\* loop
C20_FanOutIsolated ==
    /\ \A a \in BagToSet(db) \cup BagToSet(emitted) : TimesAppended(a) = 1
    /\ \A a \in ToSet(appended) :
           /\ TimesAppended(a) = 1
           /\ CopiesIn(a, db) <= 1
           /\ CopiesIn(a, emitted) <= 1
    /\ \A t \in Threads :
           /\ pc[t] = "bc_emit" =>
                  /\ loc[t].save_result \in SinkResults
                  /\ TimesAppended(Val(loc[t].attack)) = 1
                  /\ CopiesIn(Val(loc[t].attack), db) = Delivered(loc[t].save_result)
           /\ loc[t].status = "fanned_out" =>
                  /\ pc[t] = AfterBroadcast(t)
                  /\ loc[t].save_result \in SinkResults
                  /\ loc[t].emit_result \in SinkResults
                  /\ TimesAppended(Val(loc[t].attack)) = 1
                  /\ CopiesIn(Val(loc[t].attack), db) = Delivered(loc[t].save_result)
                  /\ CopiesIn(Val(loc[t].attack), emitted)
                         = Delivered(loc[t].emit_result)

\* one attack's save failed and it was broadcast all the same; another's
\* broadcast failed and it is saved; both are in the ring buffer
C20_Witness ==
    /\ loc[GenThread].status = "fanned_out"
    /\ \E a \in ToSet(recent_attacks) : \E b \in ToSet(recent_attacks) :
           /\ CopiesIn(a, db) = 0
           /\ CopiesIn(a, emitted) = 1
           /\ CopiesIn(b, db) = 1
           /\ CopiesIn(b, emitted) = 0
    /\ loc[GenThread].save_result = "exception"
    /\ loc[GenThread].emit_result = "ok"

\* ------------------------------------------------------------------------
\* Properties of the two loops (SpecLive)
\* ------------------------------------------------------------------------
\* the generation loop is back at the top of `while True` after an iteration in
\* which a lookup or a sink of the fan-out raised
GenIterationFailed ==
    /\ pc[GenThread] = "loop"
    /\ \/ loc[GenThread].status = "no_location"
       \/ /\ loc[GenThread].status = "fanned_out"
          /\ "exception" \in {loc[GenThread].save_result, loc[GenThread].emit_result}

\* the scoring loop is back at the top of `while True` after a computation that raised
ScoreIterationFailed ==
    /\ pc[ScoreLoopThread] = "score_idle"
    /\ loc[ScoreLoopThread].raised

\* C21: neither loop ever ends, and after an iteration in which an exception was
\* raised (by a lookup while creating an event, by the broadcast of the
\* fan-out, or by the score computation) the loop begins its next
\* iteration, as long as the run has iterations left
C21_LoopsRunForever ==
    /\ [](pc[GenThread] # "terminated" /\ pc[ScoreLoopThread] # "terminated")
    /\ (GenIterationFailed /\ obs["created"] < LiveRun) ~> (pc[GenThread] # "loop")
    /\ (ScoreIterationFailed /\ obs["score"] < MaxScores)
           ~> (loc[ScoreLoopThread].status = "iterating")

\* the generation loop made its last attack after an iteration that a failed
\* lookup ended without one and after one whose broadcast raised, and the scoring loop computes again after a computation that raised
C21_Witness ==
    /\ obs["geo_failed"] # {}
    /\ obs["created"] = LiveRun
    /\ appended # << >>
    /\ CopiesIn(appended[1], emitted) = 0
    /\ loc[ScoreLoopThread].status = "iterating"
    /\ loc[ScoreLoopThread].prev_raised

\* ------------------------------------------------------------------------
\* Properties of Config (SpecConf)
\* ------------------------------------------------------------------------
\* the variable of the environment that overrides a key path
Overrides == (app_port :> ENV_APP_PORT) @@ (test_value :> ENV_TEST_VALUE)
Overridden(key_path) ==
    key_path \in DOMAIN Overrides /\ Overrides[key_path] \in DOMAIN environ

\* this step is a call of Config.get, on an object made from a file of this
\* content, for a key path that the environment does not override
GetsFromFile(content) ==
    /\ ret' # ret
    /\ ret'.op = "get"
    /\ files[ret'.path] = content
    /\ ~ Overridden(ret'.key_path)

\* C22: an object made while the configuration file does not exist answers
\* get('app.debug') with False, get('app.port') with 5000 and
\* get('attack_tracking.max_attacks') with 100, and answers a key path that the
\* configuration does not hold (of the defaults, or of a document) with the
\* caller's default; the environment overrides none of these key paths
C22_AbsentFileServesDefaults ==
    [][/\ GetsFromFile(AbsentFile) =>
              /\ ret'.key_path = app_debug => ret'.value = BoolV(FALSE)
              /\ ret'.key_path = app_port => ret'.value = IntV(5000)
              /\ ret'.key_path = max_attacks => ret'.value = IntV(100)
              /\ ret'.key_path \in {nonexistent_key, app_port_number, test_value}
                     => ret'.value = ret'.default
       /\ GetsFromFile(YamlFile(PortDocument(3000))) =>
              /\ ret'.key_path = app_port => ret'.value = IntV(3000)
              /\ ret'.key_path # app_port => ret'.value = ret'.default]_vars

\* get('nonexistent.key', 'default_value') on the defaults has returned
\* 'default_value', and get('app.port') on them is 5000
C22_Witness ==
    /\ ret.op = "get"
    /\ files[ret.path] = AbsentFile
    /\ environ = << >>
    /\ ret.key_path = nonexistent_key
    /\ ret.default = default_value
    /\ ret.value = default_value
    /\ get(configs[ret.self], environ, app_port, NoneV) = IntV(5000)

\* C23: an object made from a configuration file that exists and is empty
\* answers get('app.port') with 5000
C23_EmptyFileServesDefaults ==
    [][(GetsFromFile(EmptyFile) /\ ret'.key_path = app_port)
           => ret'.value = IntV(5000)]_vars

\* C24: the constructor of Config returns when the file is not YAML
C24_InvalidYamlDoesNotRaise ==
    (ret.op = "Config" /\ files[ret.path] = InvalidFile) => ~ ret.raised

\* what the values of the environment are to be converted to
Converted ==
    (<< "t", "r", "u", "e" >> :> BoolV(TRUE)) @@
    (<< "F", "a", "l", "s", "e" >> :> BoolV(FALSE)) @@
    (<< "4", "2" >> :> IntV(42)) @@
    (<< "-", "7" >> :> IntV(-7)) @@
    (<< "3", ".", "1", "4" >> :> FloatV(314, -2)) @@
    (<< "1", "e", "3" >> :> FloatV(1, 3)) @@
    (<< "h", "e", "l", "l", "o" >> :> StrV(<< "h", "e", "l", "l", "o" >>)) @@
    (<< >> :> StrV(<< >>))

\* C25: when DDOS_CONFIG_<KEY_PATH in upper case, dots as underscores> is set,
\* Config.get returns its value, whatever the file holds and whatever default
\* the caller gave: a boolean for 'true' and 'false' in any case, else an
\* integer if it reads as one, else a float if it reads as one, else the
\* string unchanged
C25_EnvironmentOverrides ==
    [][(ret' # ret /\ ret'.op = "get" /\ Overridden(ret'.key_path))
           => ret'.value = Converted[environ[Overrides[ret'.key_path]]]]_vars

\* DDOS_CONFIG_APP_PORT=42 has overridden both the 3000 of the file and the
\* caller's default
C25_Witness ==
    /\ ret.op = "get"
    /\ files[ret.path] = YamlFile(PortDocument(3000))
    /\ ret.key_path = app_port
    /\ ret.default = default_value
    /\ ENV_APP_PORT \in DOMAIN environ
    /\ environ[ENV_APP_PORT] = << "4", "2" >>
    /\ ret.value = IntV(42)

\* C26: get_config answers with the one global instance whatever path it is
\* given: it makes an instance only when there is none and otherwise returns the
\* existing one and leaves it alone; reload_config(path) always makes a new
\* instance, holding what the file at `path` holds at the call (the defaults
\* when there is no file), returns it and makes it the global instance; and no
\* other operation changes the global instance.
ExpectedPort(content) ==
    IF content = AbsentFile THEN IntV(5000)
    ELSE IF content = YamlFile(PortDocument(3000)) THEN IntV(3000)
    ELSE IntV(4000)

Called(op) == ret' # ret /\ ret'.op = op

C26_SingletonUntilReload ==
    [][ /\ (Called("get_config") /\ ~ IsNone(_config))
            => /\ ret'.self = Val(_config)
               /\ _config' = _config
               /\ configs' = configs
        /\ (Called("get_config") /\ IsNone(_config))
            => /\ ret'.self = Len(configs) + 1
               /\ _config' = Some(ret'.self)
               /\ configs'[ret'.self].config_path = ret'.path
        /\ Called("reload_config")
            => /\ ret'.self = Len(configs) + 1
               /\ Len(configs') = Len(configs) + 1
               /\ \A i \in 1..Len(configs) : configs'[i] = configs[i]
               /\ configs'[ret'.self].config_path = ret'.path
               /\ get(configs'[ret'.self], environ, app_port, NoneV)
                      = ExpectedPort(files[ret'.path])
               /\ _config' = Some(ret'.self)
        /\ ~ (Called("get_config") \/ Called("reload_config"))
            => _config' = _config
      ]_vars

\* get_config, called after a reload and with another path than the one that
\* was reloaded, has answered with the reloaded instance, whose file has been
\* rewritten since
C26_Witness ==
    /\ ret.op = "get_config"
    /\ Len(configs) = MaxConfigs
    /\ ret.self = MaxConfigs
    /\ _config = Some(MaxConfigs)
    /\ ret.path # configs[ret.self].config_path
    /\ get(configs[ret.self], environ, app_port, NoneV) = IntV(3000)
    /\ files[configs[ret.self].config_path] = YamlFile(PortDocument(4000))

\* ------------------------------------------------------------------------
\* Properties of the locks
\* ------------------------------------------------------------------------
\* C27: a thread that is about to append to the ring buffer, on the fan-out or
\* on the route, holds recent_attacks_lock.
AppendPoints == {"bc_append", "route_append"}

C27_AppendsHoldTheLock ==
    \A t \in Threads : pc[t] \in AppendPoints => recent_attacks_lock = Some(t)

\* C28: a call of calculate_threat_score that found the ring buffer non-empty
\* ends without an exception having been raised in it and with another result
\* than the zero score, whatever was appended to the buffer while it ran.
C28_AppendNeverBreaksScore ==
    \A t \in Threads :
        (ScoreEnded(t) /\ loc[t].buf_at_call # << >>)
            => /\ ~ loc[t].raised
               /\ ~ IsZeroScore(loc[t].result)

\* C29: a thread that is about to write the score history holds
\* threat_history_lock and one about to replace the pool holds
\* threat_cache_lock, so no two threads are about to write the same structure.
WriteLock ==
    ("score_append" :> threat_history_lock) @@ ("fetch_commit" :> threat_cache_lock)

C29_WritesHoldTheirLock ==
    /\ \A t \in Threads : pc[t] \in DOMAIN WriteLock => WriteLock[pc[t]] = Some(t)
    /\ \A t, u \in Threads : (t # u /\ pc[t] \in DOMAIN WriteLock) => pc[u] # pc[t]

\* C30: a thread that is inside a geolocation lookup, a fetch of an intel
\* list, a storage save or a broadcast to the subscribers holds none of the four
\* locks.
OutsideCalls == {"geo_remote", "fetch_src", "bc_save", "bc_emit"}

LocksHeldBy(t) ==
    {l \in {"recent_attacks_lock", "threat_history_lock", "ip_cache_lock", "threat_cache_lock"} :
        (CASE l = "recent_attacks_lock" -> recent_attacks_lock
           [] l = "threat_history_lock" -> threat_history_lock
           [] l = "ip_cache_lock"       -> ip_cache_lock
           [] l = "threat_cache_lock"   -> threat_cache_lock) = Some(t)}

C30_NoLockAcrossOutsideCalls ==
    \A t \in Threads : pc[t] \in OutsideCalls => LocksHeldBy(t) = {}

\* the generation thread has fetched the lists and looked a location up, has
\* appended under the lock, and is inside the save
C30_Witness ==
    /\ pc[GenThread] = "bc_save"
    /\ loc[GenThread].attack # None
    /\ recent_attacks # << >>
    /\ recent_attacks[Len(recent_attacks)] = Val(loc[GenThread].attack)
    /\ loc[GenThread].geo_calls > 0
    /\ threat_ips_cache # {}
    /\ recent_attacks_lock = None

\* ------------------------------------------------------------------------
\* Properties of one score computation (SpecScore)
\* ------------------------------------------------------------------------
\* t returns, in this step, the record it computed
Returns(t) == loc'[t] # loc[t] /\ loc'[t].status = "returned"

\* C31: the step in which a computation over a non-empty buffer returns its
\* record is the one step of that call that writes the history: it adds that
\* record, once, as the newest (the oldest leaves a full history), and the
\* history is written by no other step.
C31_OneRecordPerComputation ==
    [][ /\ \A t \in Threads :
             Returns(t)
                 => /\ loc[t].buf_at_call # << >>
                    /\ ~ loc'[t].raised
                    /\ threat_score_history' =
                           LastN(Append(threat_score_history, Val(loc'[t].result)),
                                 MAX_THREAT_HISTORY)
                    /\ obs'.scored = Append(obs.scored, Val(loc'[t].result))
        /\ threat_score_history' # threat_score_history
               => \E t \in Threads : Returns(t)
        /\ \A t \in Threads :
              (pc[t] = "score_compute" /\ pc'[t] # pc[t] /\ loc[t].buf_at_call # << >>)
                  => pc'[t] = "score_append"
      ]_vars

\* the second computation over a buffer that holds attacks has returned, and
\* the history holds one record more than when it was called: its own
C31_Witness ==
    /\ loc[ScoreLoopThread].status = "returned"
    /\ loc[ScoreLoopThread].buf_at_call # << >>
    /\ Len(obs.scored) = 2
    /\ threat_score_history = Append(loc[ScoreLoopThread].hist_before,
                                     Val(loc[ScoreLoopThread].result))
    /\ loc[ScoreLoopThread].hist_before # << >>

\* ------------------------------------------------------------------------
\* Properties of the analysis window (SpecWindow)
\* ------------------------------------------------------------------------
\* the records of `buffer` made less than one analysis window before `time`
Within(buffer, time) ==
    {i \in 1..Len(buffer) : time - buffer[i].timestamp < ANALYSIS_WINDOW_SECONDS}

\* the list a call at `time` is to analyse of a non-empty `buffer`
Analysed(buffer, time) ==
    IF Within(buffer, time) # {}
    THEN SelectSeq(buffer, LAMBDA a : time - a.timestamp < ANALYSIS_WINDOW_SECONDS)
    ELSE LET m == IF Len(buffer) < 10 THEN Len(buffer) ELSE 10
         IN  [i \in 1..m |-> buffer[Len(buffer) - m + i]]

\* C32: over a non-empty buffer, the list analysed is the records inside the
\* window when there is one, and otherwise the newest min(10, len) records of
\* the buffer; the frequency factor reported (in tenths) is 1.5 for each record
\* of that list, up to 30.  Each reading is of the buffer as it is at that step.
C32_WindowOrLastTen ==
    [][ /\ \A t \in {ScoreLoopThread} :
            /\ (pc[t] = "score_filter" /\ pc'[t] = "score_compute")
                   => /\ Within(recent_attacks, loc[t].current_time) # {}
                      /\ loc'[t].recent_attack_list
                             = Analysed(recent_attacks, loc[t].current_time)
            /\ (pc[t] = "score_filter" /\ pc'[t] = "score_fallback")
                   => Within(recent_attacks, loc[t].current_time) = {}
            /\ (pc[t] = "score_fallback" /\ pc'[t] # pc[t])
                   => /\ pc'[t] = "score_compute"
                      /\ Within(loc[t].buf_at_call, loc[t].current_time) = {}
                      /\ Len(loc'[t].recent_attack_list)
                             = (IF Len(recent_attacks) < 10 THEN Len(recent_attacks) ELSE 10)
                      /\ \A i \in 1..Len(loc'[t].recent_attack_list) :
                             loc'[t].recent_attack_list[i]
                                 = recent_attacks[Len(recent_attacks)
                                                  - Len(loc'[t].recent_attack_list) + i]
            /\ (pc[t] = "score_compute" /\ pc'[t] = "score_append")
                   => /\ loc'[t].recent_attack_list = loc[t].recent_attack_list
                      /\ Val(loc'[t].result).factors.frequency
                             = (IF 15 * Len(loc[t].recent_attack_list) < 300
                                THEN 15 * Len(loc[t].recent_attack_list) ELSE 300)
        /\ \A t \in {ServiceThread} :
            (pc[t] = "svc_idle" /\ pc'[t] = "svc_called" /\ recent_attacks # << >>)
                => /\ loc'[t].recent_attack_list = Analysed(recent_attacks, now)
                   /\ Val(loc'[t].result).factors.frequency
                          = (IF 15 * Len(loc'[t].recent_attack_list) < 300
                             THEN 15 * Len(loc'[t].recent_attack_list) ELSE 300)
      ]_vars

\* a buffer of more than 10 attacks, all older than the window: the list
\* analysed is its newest 10
C32_Witness ==
    /\ Len(recent_attacks) > 10
    /\ Within(recent_attacks, now) = {}
    /\ loc[ScoreLoopThread].status = "returned"
    /\ Len(loc[ScoreLoopThread].recent_attack_list) = 10
    /\ loc[ScoreLoopThread].recent_attack_list[1] = recent_attacks[Len(recent_attacks) - 9]
    /\ Val(loc[ScoreLoopThread].result).factors.frequency = 150
    /\ pc[ServiceThread] = "svc_called"
    /\ loc[ServiceThread].recent_attack_list = loc[ScoreLoopThread].recent_attack_list

\* ------------------------------------------------------------------------
\* Properties of the pace of the generation loop (SpecSched)
\* ------------------------------------------------------------------------
\* C33: after any number of iterations from intensity 1.0 and trend 0.0 the
\* trend is within [-0.5, 0.5], the intensity within [0.3, 2.0], and the sleep
\* interval of the iteration within [1.0, 5.0] seconds.
C33_PaceWithinBounds ==
    /\ sched.intensity_trend \in -50..50
    /\ sched.attack_intensity \in 30..200
    /\ ~ IsNone(sched.sleep_time) => Val(sched.sleep_time) \in 100..500

\* the walk has reached the top of the intensity range with the trend at its
\* top, and the shortest sleep
C33_Witness ==
    /\ sched.intensity_trend = 50
    /\ sched.attack_intensity = 200
    /\ sched.sleep_time = Some(100)

\* ------------------------------------------------------------------------
\* Properties of a burst (SpecBurst)
\* ------------------------------------------------------------------------
\* the burst of t has ended: its last pause is over and t is back at the loop
BurstEnded(t) == pc[t] = "loop" /\ loc[t].caller = "burst"

\* C34 as stated: a burst that has ended has emitted between 2 and 4 events,
\* each through the fan-out, with a pause of 0.3 s after each.
C34_BurstEmitsTwoToFour ==
    \A t \in Threads :
        BurstEnded(t)
            => /\ loc[t].burst_made \in 2..4
               /\ loc[t].burst_slept = BURST_PAUSE * loc[t].burst_made

\* C34, amended: a burst makes between 2 and 4 attempts to create an
\* intel-derived event; every attempt is followed by one pause of 0.3 s
\* whether or not it made an event; the events of a burst are at most as many
\* as its attempts, and each one made goes through the fan-out before the pause
\* (it is appended to the ring buffer and broadcast).
C34_BurstAttemptsTwoToFour ==
    \A t \in Threads :
        /\ loc[t].caller = "burst"
               => /\ loc[t].burst_count \in 2..4
                  /\ loc[t].burst_left \in 0..loc[t].burst_count
                  /\ loc[t].burst_made <= loc[t].burst_count - loc[t].burst_left
                  /\ loc[t].burst_slept
                         = BURST_PAUSE * (loc[t].burst_count - loc[t].burst_left)
        /\ (pc[t] = "burst_sleep" /\ ~ IsNone(loc[t].attack))
               => /\ recent_attacks # << >>
                  /\ \E i \in 1..Len(appended) : appended[i] = Val(loc[t].attack)
                  /\ CopiesIn(Val(loc[t].attack), emitted) = 1
        /\ BurstEnded(t)
               => /\ loc[t].burst_left = 0
                  /\ loc[t].burst_slept = BURST_PAUSE * loc[t].burst_count

\* a burst of 3 attempts has ended with 3 pauses and 2 events: the lookup of
\* one attempt failed
C34_Witness ==
    /\ BurstEnded(GenThread)
    /\ loc[GenThread].burst_count = 3
    /\ loc[GenThread].burst_made = 2
    /\ loc[GenThread].burst_slept = 3 * BURST_PAUSE
    /\ Len(appended) = 2
    /\ obs.geo_failed # {}

\* ------------------------------------------------------------------------
\* Properties of intel-derived creation (SpecLocks)
\* ------------------------------------------------------------------------
\* t ends, in this step, a call of create_real_attack
CreationEnds(t) ==
    /\ pc[t] \in {"real_pick", "real_make"}
    /\ pc'[t] \notin {"real_pick", "real_make", "geo_check"}

\* C35: create_real_attack yields no event exactly when the pool it was given
\* has fewer than 2 IPs or the lookup of either endpoint gave no location; the
\* iteration then ends with nothing appended, saved or broadcast and without a
\* second attempt; an event it yields has two different IPs of that pool as its
\* source and destination and real_data true, and only such events reach the
\* fan-out.
C35_IntelEventOrNothing ==
    [][ \A t \in {GenThread} :
          /\ CreationEnds(t)
               => /\ IsNone(loc'[t].attack)
                      <=> \/ Cardinality(loc[t].threat_ips) < 2
                          \/ IsNone(loc[t].origin)
                          \/ IsNone(loc[t].destination)
                  /\ IsNone(loc'[t].attack)
                      => /\ pc'[t] = "loop"
                         /\ UNCHANGED << recent_attacks, appended, db, emitted, created >>
                  /\ ~ IsNone(loc'[t].attack)
                      => /\ pc'[t] = "bc_lock"
                         /\ Val(loc'[t].attack).source_ip \in loc[t].threat_ips
                         /\ Val(loc'[t].attack).destination_ip \in loc[t].threat_ips
                         /\ Val(loc'[t].attack).source_ip
                                # Val(loc'[t].attack).destination_ip
                         /\ Val(loc'[t].attack).real_data
                         /\ Val(loc'[t].attack).origin = Val(loc[t].origin)
                         /\ Val(loc'[t].attack).destination = Val(loc[t].destination)
          /\ (pc'[t] = "bc_lock" /\ pc[t] # "bc_lock") => CreationEnds(t)
          /\ (appended' # appended \/ db' # db \/ emitted' # emitted)
               => /\ pc[t] \in {"bc_append", "bc_save", "bc_emit"}
                  /\ ~ IsNone(loc[t].attack)
      ]_vars

\* a creation yielded nothing because a lookup failed, and nothing was appended,
\* saved or broadcast; the creation of a later iteration yielded an event, which
\* went through the fan-out
C35_Witness ==
    /\ pc[GenThread] = "loop"
    /\ loc[GenThread].status = "fanned_out"
    /\ obs.geo_failed # {}
    /\ Len(appended) = 1
    /\ appended[1].real_data
    /\ appended[1].source_ip # appended[1].destination_ip
    /\ {appended[1].source_ip, appended[1].destination_ip} \subseteq threat_ips_cache
    /\ recent_attacks = appended
    /\ CopiesIn(appended[1], emitted) = 1

\* ------------------------------------------------------------------------
\* Properties of the zero score (SpecScore)
\* ------------------------------------------------------------------------
\* t's call of calculate_threat_score ends, in this step, with the zero score
\* of the empty buffer or of the exception handler
EndsWithZero(t) == loc'[t] # loc[t] /\ loc'[t].status \in {"empty", "error"}

\* C36: a computation that answers with the zero score because the buffer was
\* empty or because an exception was raised has written nothing to the score
\* history: not in the step that ends it, and not before in the same call.
C36_ZeroScoreNotStored ==
    [][ \A t \in Threads :
          EndsWithZero(t)
              => /\ IsZeroScore(loc'[t].result)
                 /\ threat_score_history' = threat_score_history
                 /\ threat_score_history' = loc'[t].hist_before
                 /\ obs'.scored = obs.scored
      ]_vars

\* after a computation that stored its record, one on a buffer that was being
\* appended to has ended in the handler: the history holds the first record only
C36_Witness ==
    /\ loc[ScoreLoopThread].status = "error"
    /\ loc[ScoreLoopThread].raised
    /\ IsZeroScore(loc[ScoreLoopThread].result)
    /\ Len(threat_score_history) = 1
    /\ threat_score_history = loc[ScoreLoopThread].hist_before
    /\ ~ IsZeroScore(Some(threat_score_history[1]))

\* ------------------------------------------------------------------------
\* Properties of the refresh of an empty pool (SpecPool)
\* ------------------------------------------------------------------------
\* C38: a call of fetch_real_threat_data that finds the pool empty goes on to
\* the sources however short the time since the last refresh, and requests each
\* of them once before it commits; one that finds the pool non-empty goes on to
\* the sources only when CACHE_DURATION seconds have passed since the last.
C38_EmptyPoolAlwaysRefetches ==
    [][ \A t \in {PoolThread} :
          /\ (pc[t] = "fetch_check" /\ pc'[t] # pc[t])
               => /\ threat_ips_cache = {} => pc'[t] = "fetch_src"
                  /\ threat_ips_cache # {}
                       => (pc'[t] = "fetch_src"
                               <=> now - last_fetch_time >= CACHE_DURATION)
          /\ (pc[t] = "fetch_src" /\ pc'[t] = "fetch_commit")
               => /\ loc'[t].fetched = Len(sources)
                  /\ loc'[t].idx = Len(sources) + 1
          /\ (pc[t] = "fetch_src" /\ pc'[t] = "fetch_src" /\ loc'[t] # loc[t])
               => /\ loc'[t].fetched = loc[t].fetched + 1
                  /\ loc'[t].fetched < Len(sources)
      ]_vars

\* a second refresh, called with the pool still empty and no time passed since
\* the first, has requested every source
C38_Witness ==
    /\ pc[PoolThread] = "fetch_commit"
    /\ obs["refresh"] >= 2
    /\ threat_ips_cache = {}
    /\ last_fetch_time = now
    /\ loc[PoolThread].fetched = Len(sources)

\* ------------------------------------------------------------------------
\* Properties of the route /api/generate_attack (SpecGeo)
\* ------------------------------------------------------------------------
\* the request of t moves on in this step
RouteMoves(t, from, to) == pc[t] = from /\ pc'[t] = to

\* C39: a request to /api/generate_attack whose creation yields no event ends
\* with the error answer, and no step of it writes the ring buffer or the
\* store; one whose creation yields an event appends that event to the ring
\* buffer once, then attempts its save once, and writes neither at any other
\* step.
C39_RouteAppendsOnceOrNotAtAll ==
    /\ [][ \A t \in {RouteThread} :
             /\ (pc'[t] # pc[t] /\ pc'[t] = "route_error")
                    => /\ IsNone(loc'[t].attack)
                       /\ UNCHANGED << recent_attacks, appended, db >>
             /\ (pc'[t] # pc[t] /\ pc'[t] = "route_append")
                    => /\ ~ IsNone(loc'[t].attack)
                       /\ TimesAppended(Val(loc'[t].attack)) = 0
                       /\ CopiesIn(Val(loc'[t].attack), db) = 0
             /\ RouteMoves(t, "route_append", "route_save")
                    => /\ appended' = Append(appended, Val(loc[t].attack))
                       /\ recent_attacks' = LastN(Append(recent_attacks, Val(loc[t].attack)),
                                                  MAX_ATTACKS)
                       /\ db' = db
             /\ pc[t] = "route_append" => pc'[t] \in {"route_append", "route_save"}
             /\ (pc[t] = "route_save" /\ pc'[t] # pc[t])
                    => /\ db' = db (+) SetToBag({Val(loc[t].attack)})
                       /\ pc'[t] = "route_trim"
                       /\ UNCHANGED << recent_attacks, appended >>
             /\ (pc[t] = "route_trim" /\ pc'[t] # pc[t])
                    => /\ pc'[t] = "route_done"
                       /\ UNCHANGED << recent_attacks, appended, db >>
         ]_vars
    /\ [](\A t \in {RouteThread} :
             /\ pc[t] = "route_error"
                    => IsNone(loc[t].attack)
             /\ pc[t] \in {"route_save", "route_trim", "route_done"}
                    => TimesAppended(Val(loc[t].attack)) = 1
             /\ pc[t] \in {"route_trim", "route_done"}
                    => CopiesIn(Val(loc[t].attack), db) = 1)

\* one request has ended with the error answer after a failed lookup, the ring
\* buffer and the store holding what the generation loop put there and no more
C39_Witness ==
    /\ pc[RouteThread] = "route_error"
    /\ loc[RouteThread].status = "no_location"
    /\ recent_attacks # << >>
    /\ recent_attacks = appended
    /\ db = SetToBag(ToSet(appended))
    /\ \A i \in 1..Len(appended) : appended[i].id = i

\* ------------------------------------------------------------------------
\* Properties of the trend (SpecTrend)
\* ------------------------------------------------------------------------
\* the sum of the scores of the last five records of h
LastFiveSum(h) ==
    h[Len(h) - 4].score + h[Len(h) - 3].score + h[Len(h) - 2].score
        + h[Len(h) - 1].score + h[Len(h)].score

\* C13: with fewer than 5 records in the history the trend is stable; otherwise,
\* with m the mean of the last 5 scores, it is escalating iff total > m + 10,
\* de-escalating iff total < m - 10 and stable otherwise.
C13_TrendClassification ==
    \A t \in Threads :
        Computed(t) =>
            LET h == loc[t].hist_before
                r == Val(loc[t].result)
            IN  IF Len(h) < 5 THEN r.trend = "stable"
                ELSE /\ r.trend \in {"escalating", "de-escalating", "stable"}
                     /\ r.trend = "escalating" <=> 5 * r.score > LastFiveSum(h) + 50
                     /\ r.trend = "de-escalating" <=> 5 * r.score < LastFiveSum(h) - 50

\* a score exactly 10 above the mean of the last five was classified
C13_Witness ==
    \E t \in Threads :
        /\ Computed(t)
        /\ Len(loc[t].hist_before) >= 5
        /\ 5 * Val(loc[t].result).score = LastFiveSum(loc[t].hist_before) + 50
        /\ Val(loc[t].result).trend = "stable"

\* t has computed a score against a history of exactly 5 records averaging 50
AfterFiveAveragingFifty(t) ==
    /\ Computed(t)
    /\ Len(loc[t].hist_before) = 5
    /\ LastFiveSum(loc[t].hist_before) = 250

\* C14 as stated: given 5 prior records averaging 50, a new score of 65 is
\* escalating and a new score of 70 is stable.
C14_SeventyIsStable ==
    \A t \in Threads :
        AfterFiveAveragingFifty(t) =>
            /\ Val(loc[t].result).score = 65 => Val(loc[t].result).trend = "escalating"
            /\ Val(loc[t].result).score = 70 => Val(loc[t].result).trend = "stable"

\* C14 amended: given 5 prior records averaging 50, a new score of 65 is
\* escalating, a new score of 70 is escalating too, and a new score of 60 is
\* stable.
C14_SeventyIsEscalating ==
    \A t \in Threads :
        AfterFiveAveragingFifty(t) =>
            /\ Val(loc[t].result).score = 65 => Val(loc[t].result).trend = "escalating"
            /\ Val(loc[t].result).score = 70 => Val(loc[t].result).trend = "escalating"
            /\ Val(loc[t].result).score = 60 => Val(loc[t].result).trend = "stable"

\* a score of 70 was classified against 5 records averaging 50
C14_Witness ==
    \E t \in Threads :
        /\ AfterFiveAveragingFifty(t)
        /\ Val(loc[t].result).score = 70

\* C37: the record a computation has stored carries the trend of its score
\* against the records stored before it: with h the history without that newest
\* record, stable when h has fewer than 5 records, and otherwise the
\* classification against the mean of the last 5 scores of h, in which the new
\* score does not take part.
WithoutNewest(h) == SubSeq(h, 1, Len(h) - 1)

C37_TrendAgainstEarlierRecords ==
    \A t \in Threads :
        loc[t].status = "returned"
            => LET r == Val(loc[t].result)
                   h == WithoutNewest(threat_score_history)
               IN  /\ threat_score_history[Len(threat_score_history)] = r
                   /\ h = loc[t].hist_before
                   /\ IF Len(h) < 5 THEN r.trend = "stable"
                      ELSE /\ r.trend = "escalating"
                                <=> 5 * r.score > LastFiveSum(h) + 50
                           /\ r.trend = "de-escalating"
                                <=> 5 * r.score < LastFiveSum(h) - 50
                           /\ r.trend = "stable"
                                <=> /\ 5 * r.score <= LastFiveSum(h) + 50
                                    /\ 5 * r.score >= LastFiveSum(h) - 50

\* a stored record is escalating against the five before it, and would not be
\* against the last five of the history that holds it
C37_Witness ==
    /\ loc[ScoreLoopThread].status = "returned"
    /\ Len(threat_score_history) >= 6
    /\ Val(loc[ScoreLoopThread].result).trend = "escalating"
    /\ 5 * Val(loc[ScoreLoopThread].result).score
           <= LastFiveSum(threat_score_history) + 50

\* ------------------------------------------------------------------------
\* Properties of the two score computations side by side (SpecBoth)
\* ------------------------------------------------------------------------
\* calculate_threat_score has answered in t without an exception
Answered(t) == pc[t] = "score_idle" /\ loc[t].status \in {"returned", "empty"}

SameAnswer(a, b) ==
    /\ a.score = b.score
    /\ a.level = b.level
    /\ a.trend = b.trend
    /\ a.factors = b.factors

\* C40: when calculate_score of the service (default configuration) and
\* calculate_threat_score of the application were given the same buffer
\* content and the same score history at the same clock, their answers have the
\* same score, level, trend and factors.
C40_ServiceAgreesWithApp ==
    \A s \in {ServiceThread} : \A t \in {ScoreLoopThread} :
        (/\ pc[s] = "svc_called"
         /\ Answered(t)
         /\ loc[s].buf_at_call = loc[t].buf_at_call
         /\ loc[s].hist_before = loc[t].hist_before
         /\ Val(loc[s].result).timestamp = Val(loc[t].result).timestamp)
            => SameAnswer(Val(loc[s].result), Val(loc[t].result))

\* both were given 12 attacks older than the window and a history of 5
\* records: both analysed the newest 10 and found the score de-escalating
C40_Witness ==
    /\ pc[ServiceThread] = "svc_called"
    /\ Answered(ScoreLoopThread)
    /\ loc[ServiceThread].buf_at_call = loc[ScoreLoopThread].buf_at_call
    /\ loc[ServiceThread].hist_before = loc[ScoreLoopThread].hist_before
    /\ Len(loc[ScoreLoopThread].buf_at_call) = 12
    /\ Len(loc[ScoreLoopThread].hist_before) = 5
    /\ Len(loc[ScoreLoopThread].recent_attack_list) = 10
    /\ Len(loc[ServiceThread].recent_attack_list) = 10
    /\ Val(loc[ScoreLoopThread].result).trend = "de-escalating"
    /\ Val(loc[ServiceThread].result).trend = "de-escalating"
    /\ Val(loc[ServiceThread].result).score = Val(loc[ScoreLoopThread].result).score
    /\ Val(loc[ServiceThread].result).score > 0

====
